---- MODULE Spec2Model ----
(***************************************************************************)
(* A model of the PST/OST reader's file handle (src/src/PSTFile.ts), of    *)
(* the helpers of src/src/PSTUtil.ts and of the attachment object          *)
(* (PSTAttachment).  A file is a byte array; the handle's operations are   *)
(* translated from the TypeScript source, with the cursor, the descriptor  *)
(* table, the caller's buffers and the static name-to-ID map as state.     *)
(***************************************************************************)
EXTENDS Integers, Sequences, FiniteSets, TLC

VARIABLES
    handles,    \* the PSTFile instances constructed so far, in order; walks,
                \* complete and mapAtOpen are ghost fields: the NBT walks made
                \* for the instance, whether one of them ran to its end, and
                \* the static map as its constructor left it
    fdTable,    \* the process's open file descriptors: fd -> [name, flags]
    heap,       \* the caller's in-memory buffers: id -> [file, writes]
    nodeMap,    \* PSTFile.nodeMap, the static name-to-ID map
    result,     \* what the last call returned or threw
    steps,      \* ghost: number of constructor calls and of other calls made
    data,       \* the buffer handed to decode
    data0,      \* ghost: that buffer's content before any decode
    ndecode,    \* ghost: number of decode calls applied to data
    objects,    \* the message objects created so far, in order
    attachment  \* a PSTAttachment: its table items and its sub-node map

vars == <<handles, fdTable, heap, nodeMap, result, steps, data, data0, ndecode,
          objects, attachment>>

(***************************************************************************)
(* Bounds of the model.                                                    *)
(***************************************************************************)
MaxOpens == 2
MaxCalls == 3
MaxDecodeLen == 2
MaxDecodes == 2
MaxObjects == 2
\* the GUIDs of a GUID stream and the entries of an entry stream
MaxGuids == 2
MaxEntries == 2

(***************************************************************************)
(* Program constants.                                                      *)
(***************************************************************************)
ENCRYPTION_TYPE_NONE == 0
ENCRYPTION_TYPE_COMPRESSIBLE == 1
MESSAGE_STORE_DESCRIPTOR_IDENTIFIER == 33
ROOT_FOLDER_DESCRIPTOR_IDENTIFIER == 290
PST_TYPE_ANSI == 14
PST_TYPE_ANSI_2 == 15
PST_TYPE_UNICODE == 23
PST_TYPE_2013_UNICODE == 36
PS_PUBLIC_STRINGS == 0
PS_MAPI == 12
NAME_TO_ID_MAP_DESCRIPTOR == 97
HEADER_LENGTH == 514


Min(a, b) == IF a < b THEN a ELSE b

RECURSIVE Pow(_, _)
Pow(b, e) == IF e = 0 THEN 1 ELSE b * Pow(b, e - 1)

\* n shifted right by k bytes
RECURSIVE ShiftRightBytes(_, _)
ShiftRightBytes(n, k) == IF k = 0 \/ n = 0 THEN n ELSE ShiftRightBytes(n \div 256, k - 1)

\* n as w little-endian bytes
LEBytes(n, w) == [i \in 1..w |-> ShiftRightBytes(n, i - 1) % 256]

Zeros(w) == [i \in 1..w |-> 0]

\* An optional number argument is {} (omitted) or {n}; JavaScript's test
\* `position ? a : b` takes b for an omitted argument and for 0.
Omitted == {}
Arg(n) == {n}
ArgVal(a) == CHOOSE n \in a : TRUE
Truthy(a) == a # {} /\ ArgVal(a) # 0

(***************************************************************************)
(* PSTUtil.ts: the compressible-encryption table and decode.               *)
(***************************************************************************)
\* the substitution table, indexed by byte value b as compEnc[b + 1]
compEnc == <<
    71, 241, 180, 230, 11, 106, 114, 72, 133, 78, 158, 235,
    226, 248, 148, 83, 224, 187, 160, 2, 232, 90, 9, 171,
    219, 227, 186, 198, 124, 195, 16, 221, 57, 5, 150, 48,
    245, 55, 96, 130, 140, 201, 19, 74, 107, 29, 243, 251,
    143, 38, 151, 202, 145, 23, 1, 196, 50, 45, 110, 49,
    149, 255, 217, 35, 209, 0, 94, 121, 220, 68, 59, 26,
    40, 197, 97, 87, 32, 144, 61, 131, 185, 67, 190, 103,
    210, 70, 66, 118, 192, 109, 91, 126, 178, 15, 22, 41,
    60, 169, 3, 84, 13, 218, 93, 223, 246, 183, 199, 98,
    205, 141, 6, 211, 105, 92, 134, 214, 20, 247, 165, 102,
    117, 172, 177, 233, 69, 33, 112, 12, 135, 159, 116, 164,
    34, 76, 111, 191, 31, 86, 170, 46, 179, 120, 51, 80,
    176, 163, 146, 188, 207, 25, 28, 167, 99, 203, 30, 77,
    62, 75, 27, 155, 79, 231, 240, 238, 173, 58, 181, 89,
    4, 234, 64, 85, 37, 81, 229, 122, 137, 56, 104, 82,
    123, 252, 39, 174, 215, 189, 250, 7, 244, 204, 142, 95,
    239, 53, 156, 132, 43, 21, 213, 119, 52, 73, 182, 18,
    10, 127, 113, 136, 253, 157, 24, 65, 125, 147, 216, 88,
    44, 206, 254, 36, 175, 222, 184, 54, 200, 161, 128, 166,
    153, 152, 168, 47, 14, 129, 101, 115, 228, 194, 162, 138,
    212, 225, 17, 208, 8, 139, 42, 242, 237, 154, 100, 63,
    193, 108, 249, 236
>>

\* decode without the table: the byte is stored back as it is
DecodeByteNoTable(b) == b % 256

\* decode with the byte masked to seven bits before the table is indexed
DecodeByteSevenBits(b) == compEnc[(b % 128) + 1]

\* compEnc[temp] of decode's loop body, temp = data[x] & 0xff
DecodeByte(b) == compEnc[(b % 256) + 1]

\* decode(data): substitutes every byte in place and returns the same buffer
decode(buf) == [x \in 1..Len(buf) |-> DecodeByte(buf[x])]

\* convertLittleEndianBytesToLong(data, start, end): the bytes buf[start+1..end]
\* as a little-endian long.  Every integer of the model's files is below 2^31,
\* where the 64-bit long arithmetic of the source is exact; a zero byte adds
\* nothing whatever its weight.
RECURSIVE LEFold(_, _, _)
LEFold(buf, start, x) ==
    IF x < start THEN 0
    ELSE LEFold(buf, start, x - 1)
         + (IF buf[x + 1] = 0 THEN 0 ELSE buf[x + 1] * Pow(256, x - start))

convertLittleEndianBytesToLong(buf, start, end) ==
    LET s == IF Truthy(start) THEN ArgVal(start) ELSE 0
        e == IF Truthy(end) THEN ArgVal(end) ELSE Len(buf)
    IN  LEFold(buf, s, e - 1)

(***************************************************************************)
(* Files.  A file's content is [len, bytes, pc]: its length, its bytes     *)
(* (byte p is bytes[p + 1]) and pc, the three blobs the property context   *)
(* of the name-to-ID node delivers (properties 2, 3, 4).  A file is named  *)
(* by the parameters it is generated from; the generator places the        *)
(* structures at their offsets and every other byte is 0.                  *)
(***************************************************************************)
ByteAt(d, p) == d.bytes[p + 1]

Place(off, bytes) == [p \in off..(off + Len(bytes) - 1) |-> bytes[p - off + 1]]

RECURSIVE Concat(_)
Concat(ss) == IF ss = <<>> THEN <<>> ELSE Head(ss) \o Concat(Tail(ss))

\* the layout a writer of header version ver uses
WriterAnsi(ver) == ver \in {PST_TYPE_ANSI, PST_TYPE_ANSI_2}
WriterPageSize(ver) == IF ver = PST_TYPE_2013_UNICODE THEN 4096 ELSE 512
WriterPageOff(ver, i) == i * WriterPageSize(ver)
WriterMetaOff(ver) ==
    IF WriterAnsi(ver) THEN 496 ELSE IF ver = PST_TYPE_2013_UNICODE THEN 4056 ELSE 488
WriterMarkOff(ver) ==
    IF WriterAnsi(ver) THEN 500 ELSE IF ver = PST_TYPE_2013_UNICODE THEN 4072 ELSE 496
WriterWidth(ver) == IF WriterAnsi(ver) THEN 4 ELSE 8

BranchEntryBytes(ver, key, child) ==
    LEBytes(key, WriterWidth(ver)) \o Zeros(WriterWidth(ver)) \o LEBytes(child, WriterWidth(ver))

\* an NBT leaf entry {descriptorId, dataBid, subNodeBid, parentId}
NbtEntryBytes(ver, e) ==
    IF WriterAnsi(ver)
    THEN LEBytes(e.nid, 4) \o LEBytes(e.dataBid, 4) \o LEBytes(e.subBid, 4) \o LEBytes(e.parent, 4)
    ELSE LEBytes(e.nid, 8) \o LEBytes(e.dataBid, 8) \o LEBytes(e.subBid, 8)
         \o LEBytes(e.parent, 4) \o Zeros(4)

\* a BBT leaf entry {bid, fileOffset, size, refCount}
BbtEntryBytes(ver, e) ==
    IF WriterAnsi(ver)
    THEN LEBytes(e.bid, 4) \o LEBytes(e.ib, 4) \o LEBytes(e.cb, 2) \o LEBytes(e.cRef, 2)
    ELSE LEBytes(e.bid, 8) \o LEBytes(e.ib, 8) \o LEBytes(e.cb, 2) \o LEBytes(e.cRef, 2)
         \o Zeros(4)

\* a B-tree page at offset off: its entries, then count, maxCount, entrySize,
\* levelsToLeaf, then the two marker bytes
PageBytes(ver, off, marker, level, entries) ==
    Place(off, Concat(entries))
    @@ (IF ver = PST_TYPE_2013_UNICODE
        THEN Place(off + WriterMetaOff(ver),
                   LEBytes(Len(entries), 2) \o LEBytes(Len(entries), 2)
                   \o <<(IF entries = <<>> THEN 0 ELSE Len(entries[1])), level>>)
        ELSE Place(off + WriterMetaOff(ver),
                   <<Len(entries), Len(entries),
                     (IF entries = <<>> THEN 0 ELSE Len(entries[1])), level>>))
    @@ Place(off + WriterMarkOff(ver), <<marker, marker>>)

NbtE(nid, dataBid, parent) == [nid |-> nid, dataBid |-> dataBid, subBid |-> 0, parent |-> parent]
BbtE(bid) == [bid |-> bid, ib |-> 8192 + 64 * bid, cb |-> 32, cRef |-> 2]

\* the NBT leaves of a tree shape, left to right
NbtLeaves(shape) ==
    CASE shape \in {"deep", "badleaf", "cycle"}
                           -> << <<NbtE(33, 4, 0), NbtE(97, 8, 0), NbtE(290, 12, 290)>>,
                                <<NbtE(992, 92, 290), NbtE(8226, 96, 290)>> >>
      [] shape = "nomap"   -> << <<NbtE(33, 4, 0), NbtE(290, 12, 290), NbtE(8226, 96, 290)>> >>
      [] shape = "dup"     -> << <<NbtE(33, 4, 0), NbtE(97, 8, 0), NbtE(290, 12, 290),
                                  NbtE(8226, 96, 290)>>,
                                <<NbtE(8226, 96, 290), NbtE(8738, 8, 0)>> >>
      [] OTHER             -> << <<NbtE(33, 4, 0), NbtE(97, 8, 0), NbtE(290, 12, 290),
                                  NbtE(8226, 96, 290)>> >>

BbtLeaves(shape) ==
    CASE shape \in {"deep", "badleaf", "cycle"}
                           -> << <<BbtE(4), BbtE(8), BbtE(12)>>, <<BbtE(92), BbtE(96)>> >>
      [] shape = "noblock" -> << <<BbtE(4), BbtE(12), BbtE(96)>> >>
      [] shape = "dup"     -> << <<BbtE(4), BbtE(8), BbtE(12), BbtE(96),
                                  [bid |-> 98, ib |-> 520, cb |-> 32, cRef |-> 2]>> >>
      [] OTHER             -> << <<BbtE(4), BbtE(8), BbtE(12), BbtE(96)>> >>

\* a tree rooted at page root: one leaf page, or a branch page over the leaves
\* at pages root+1, root+2, ...; entries[l] are the entries of leaf l as
\* bytes, firstKey[l] is its first key
TreeBytes(ver, root, marker, entries, firstKey) ==
    IF Len(entries) = 1
    THEN PageBytes(ver, WriterPageOff(ver, root), marker, 0, entries[1])
    ELSE PageBytes(ver, WriterPageOff(ver, root), marker, 1,
                   [l \in 1..Len(entries) |->
                       BranchEntryBytes(ver, firstKey[l], WriterPageOff(ver, root + l))])
         @@ PageBytes(ver, WriterPageOff(ver, root + 1), marker, 0, entries[1])
         @@ PageBytes(ver, WriterPageOff(ver, root + 2), marker, 0, entries[2])

\* the NBT and the BBT of a file: the entries of every leaf as bytes
NbtLeafBytes(f) ==
    [l \in 1..Len(NbtLeaves(f.shape)) |->
        [i \in 1..Len(NbtLeaves(f.shape)[l]) |-> NbtEntryBytes(f.ver, NbtLeaves(f.shape)[l][i])]]

BbtLeafBytes(f) ==
    [l \in 1..Len(BbtLeaves(f.shape)) |->
        [i \in 1..Len(BbtLeaves(f.shape)[l]) |-> BbtEntryBytes(f.ver, BbtLeaves(f.shape)[l][i])]]

\* the header: magic, version byte, encryption byte at the writer's offset (the
\* byte at the other variant's offset holds 2), the two root offsets
HeaderBytes(f) ==
    Place(0, IF f.magic THEN <<33, 66, 68, 78>> ELSE <<33, 66, 68, 77>>)
    @@ (10 :> f.ver)
    @@ (IF WriterAnsi(f.ver) THEN (461 :> f.enc) @@ (513 :> 2)
                             ELSE (513 :> f.enc) @@ (461 :> 2))
    @@ (IF WriterAnsi(f.ver)
        THEN Place(188, LEBytes(WriterPageOff(f.ver, 2), 4))
             @@ Place(196, LEBytes(WriterPageOff(f.ver, 5), 4))
        ELSE Place(224, LEBytes(WriterPageOff(f.ver, 2), 8))
             @@ Place(240, LEBytes(WriterPageOff(f.ver, 5), 8)))

\* the markers of a file with corrupt leaves: the second NBT leaf (page 4)
\* ends in 0x81 0x80, the second BBT leaf (page 7) in 0x81 0x81
CorruptMarkers(f) ==
    IF f.shape = "badleaf"
    THEN Place(WriterPageOff(f.ver, 4) + WriterMarkOff(f.ver), <<129, 128>>)
         @@ Place(WriterPageOff(f.ver, 7) + WriterMarkOff(f.ver), <<129, 129>>)
    ELSE <<>>

\* the child pointers of a file with a cyclic page graph: the second entry
\* of the NBT root (page 2) and of the BBT root (page 5) points to the root
\* page itself
CyclePointers(f) ==
    IF f.shape = "cycle"
    THEN Place(WriterPageOff(f.ver, 2) + 5 * WriterWidth(f.ver),
               LEBytes(WriterPageOff(f.ver, 2), WriterWidth(f.ver)))
         @@ Place(WriterPageOff(f.ver, 5) + 5 * WriterWidth(f.ver),
                  LEBytes(WriterPageOff(f.ver, 5), WriterWidth(f.ver)))
    ELSE <<>>

\* the bytes placed by the generator, offset -> byte
PlacedBytes(f) ==
    CyclePointers(f)
    @@ CorruptMarkers(f)
    @@ HeaderBytes(f)
    @@ TreeBytes(f.ver, 2, (IF f.shape = "badmark" THEN 128 ELSE 129), NbtLeafBytes(f),
                 [l \in 1..Len(NbtLeaves(f.shape)) |-> NbtLeaves(f.shape)[l][1].nid])
    @@ TreeBytes(f.ver, 5, 128, BbtLeafBytes(f),
                 [l \in 1..Len(BbtLeaves(f.shape)) |-> BbtLeaves(f.shape)[l][1].bid])

\* len bytes: the placed ones, 0 elsewhere
Dense(len, placed) ==
    [i \in 1..len |-> IF (i - 1) \in DOMAIN placed THEN placed[i - 1] ELSE 0]

FileContent(f) ==
    [len   |-> WriterPageOff(f.ver, 8),
     bytes |-> Dense(WriterPageOff(f.ver, 8), PlacedBytes(f)),
     pc    |-> f.names]

(***************************************************************************)
(* PSTFile.ts: the byte source.  A source s is [kind, open, d]: "fd" (a    *)
(* descriptor, open or already closed, over the file content d) or         *)
(* "buffer" (the caller's buffer d).                                       *)
(***************************************************************************)
\* number of bytes the source holds from position on, at most length
Available(s, length, position) ==
    IF position >= 0 /\ position < s.d.len THEN Min(length, s.d.len - position) ELSE 0

\* readSync throws: fs.readSync on a closed descriptor; Buffer.copy with a
\* sourceStart outside 0..length of the source
ReadSyncErr(s, position) ==
    IF s.kind = "fd" THEN ~s.open ELSE position < 0 \/ position > s.d.len

\* readSync's return value: the bytes fs.readSync read, or length for the
\* in-memory copy
ReadSyncN(s, length, position) ==
    IF s.kind = "fd" THEN Available(s, length, position) ELSE length

\* the target buffer after readSync: the bytes read, then what it held
ReadSyncBuf(s, old, position) ==
    [i \in 1..Len(old) |->
        IF i <= Available(s, Len(old), position) THEN ByteAt(s.d, position + i - 1) ELSE old[i]]

\* readCompletely(buffer, position?) with this.position = pos
readCompletely(s, pos, old, posArg) ==
    LET p == IF Truthy(posArg) THEN ArgVal(posArg) ELSE pos
    IN  IF ReadSyncErr(s, p)
        THEN [buf |-> old, pos |-> pos, err |-> TRUE]
        ELSE [buf |-> ReadSyncBuf(s, old, p),
              pos |-> (IF Truthy(posArg) THEN ArgVal(posArg) ELSE pos)
                      + ReadSyncN(s, Len(old), p),
              err |-> FALSE]

\* readCompletely into a buffer of length bytes whose content is not used
readCompletelySkip(s, pos, length) ==
    IF ReadSyncErr(s, pos)
    THEN [pos |-> pos, err |-> TRUE]
    ELSE [pos |-> pos + ReadSyncN(s, length, pos), err |-> FALSE]

\* read(position?) with this.position = pos: one byte
read(s, pos, posArg) ==
    LET Returns(r) == [v |-> r.buf[1], pos |-> r.pos, err |-> r.err]
    IN  Returns(readCompletely(s, pos, Zeros(1), posArg))

\* the width of a file offset
OffsetWidth(type) == IF type = PST_TYPE_ANSI THEN 4 ELSE 8

\* extractLEFileOffset(startOffset): seek, then 4 or 8 little-endian bytes
extractLEFileOffset(s, type, startOffset) ==
    LET Returns(r) ==
            [v |-> LEFold(r.buf, 0, OffsetWidth(type) - 1), pos |-> r.pos, err |-> r.err]
    IN  Returns(readCompletely(s, startOffset, Zeros(OffsetWidth(type)), Omitted))

(***************************************************************************)
(* PSTFile.ts: findBtreeItem.                                              *)
(***************************************************************************)
\* header offset of the root page's file offset
RootOffsetPos(type, descTree) ==
    IF type = PST_TYPE_ANSI THEN (IF descTree THEN 188 ELSE 196)
                            ELSE (IF descTree THEN 224 ELSE 240)

\* fileTypeAdjustment: where a page's two marker bytes are
fileTypeAdjustment(type) ==
    IF type = PST_TYPE_ANSI THEN 500
    ELSE IF type = PST_TYPE_2013_UNICODE THEN 4096 - 24 ELSE 496

\* len: the bytes of a page before its metadata
PayloadLength(type) ==
    IF type = PST_TYPE_ANSI THEN 496
    ELSE IF type = PST_TYPE_2013_UNICODE THEN 4056 ELSE 488

BranchEntrySize(type) == IF type = PST_TYPE_ANSI THEN 12 ELSE 24
BranchChildAt(type) == IF type = PST_TYPE_ANSI THEN 8 ELSE 16

LeafEntrySize(type, descTree) ==
    IF type = PST_TYPE_ANSI THEN (IF descTree THEN 16 ELSE 12)
                            ELSE (IF descTree THEN 32 ELSE 24)

\* the loop condition with the first marker byte alone
MarkerOkFirstByte(buf, descTree) ==
    \/ buf[1] = 128 /\ ~descTree
    \/ buf[1] = 129 /\ descTree

\* the loop condition: both marker bytes 0x80 (offset index) or 0x81
\* (descriptor index)
MarkerOk(buf, descTree) ==
    \/ buf[1] = 128 /\ buf[2] = 128 /\ ~descTree
    \/ buf[1] = 129 /\ buf[2] = 129 /\ descTree

\* Long.toString(): the decimal digits of a non-negative long
RECURSIVE DecimalString(_)
DecimalString(n) ==
    IF n < 10 THEN <<n>> ELSE Append(DecimalString(n \div 10), n % 10)

\* JavaScript's a > b on two strings
RECURSIVE StringGreater(_, _)
StringGreater(a, b) ==
    IF a = <<>> THEN FALSE
    ELSE IF b = <<>> THEN TRUE
    ELSE IF Head(a) # Head(b) THEN Head(a) > Head(b)
    ELSE StringGreater(Tail(a), Tail(b))

\* the branch test "key of entry x is greater than index": in the ANSI
\* branch `a > b` on two Long objects, which JavaScript compares by their
\* toString(); in the Unicode branch a.greaterThan(b)
KeyGreater(type, key, index) ==
    IF type = PST_TYPE_ANSI
    THEN StringGreater(DecimalString(key), DecimalString(index))
    ELSE key > index

\* the leaf test written like the branch test, stopping at the first key that
\* is not below index
KeyEqualsOrGreater(key, index) == key >= index

\* the leaf test key.equals(index)
KeyEquals(key, index) == key = index

\* what the four reads after the payload give: numberOfItems and levelsToLeaf
NoMeta(p) == [err |-> TRUE, pos |-> p, n |-> 0, levels |-> 0]

\* numberOfItems (read twice, into the same buffer), then two single bytes, the
\* second of them levelsToLeaf, with the cursor at pos
MetaAt(s, type, pos) ==
    LET Levels(c1, c4) ==
            IF c4.err THEN NoMeta(c4.pos)
            ELSE [err |-> FALSE, pos |-> c4.pos,
                  n |-> LEFold(c1.buf, 0, Len(c1.buf) - 1), levels |-> c4.v]
        ItemSize(c1, c3) ==
            IF c3.err THEN NoMeta(c3.pos) ELSE Levels(c1, read(s, c3.pos, Omitted))
        MaxItems(c1, c2) ==
            IF c2.err THEN NoMeta(c2.pos) ELSE ItemSize(c1, read(s, c2.pos, Omitted))
        Items(c1) ==
            IF c1.err THEN NoMeta(c1.pos)
            ELSE MaxItems(c1, readCompletely(s, c1.pos, c1.buf, Omitted))
    IN  Items(readCompletely(s, pos,
                             Zeros(IF type = PST_TYPE_2013_UNICODE THEN 2 ELSE 1), Omitted))

\* the page metadata after the payload: numberOfItems and levelsToLeaf
PageMeta(s, type, start) ==
    LET Payload(r0) == IF r0.err THEN NoMeta(r0.pos) ELSE MetaAt(s, type, r0.pos)
    IN  Payload(readCompletelySkip(s, start, PayloadLength(type)))

\* the branch loop: the first x in x..n-1 whose key is greater than index
RECURSIVE ScanBranch(_, _, _, _, _, _, _)
ScanBranch(s, type, start, index, n, x, pos) ==
    LET Entry(k) ==
            IF k.err THEN [kind |-> "err", x |-> x, pos |-> k.pos]
            ELSE IF KeyGreater(type, k.v, index) THEN [kind |-> "child", x |-> x, pos |-> k.pos]
            ELSE ScanBranch(s, type, start, index, n, x + 1, k.pos)
    IN  IF x >= n THEN [kind |-> "none", x |-> n, pos |-> pos]
        ELSE Entry(extractLEFileOffset(s, type, start + x * BranchEntrySize(type)))

\* the key of the leaf entry at offset at: 4 bytes of a descriptor entry, a
\* file offset's width of an offset entry
LeafKey(s, type, descTree, at) ==
    LET Key4(r) == [v |-> convertLittleEndianBytesToLong(r.buf, Omitted, Omitted),
                    pos |-> r.pos, err |-> r.err]
    IN  IF descTree THEN Key4(readCompletely(s, at, Zeros(4), Omitted))
        ELSE extractLEFileOffset(s, type, at)

\* the leaf loop: the first x in x..n-1 whose key equals index, and its bytes
RECURSIVE ScanLeaf(_, _, _, _, _, _, _, _)
ScanLeaf(s, type, descTree, start, index, n, x, pos) ==
    LET Found(e) ==
            IF e.err THEN [kind |-> "err", x |-> x, pos |-> e.pos, bytes |-> <<>>]
            ELSE [kind |-> "found", x |-> x, pos |-> e.pos, bytes |-> e.buf]
        Entry(at, k) ==
            IF k.err THEN [kind |-> "err", x |-> x, pos |-> k.pos, bytes |-> <<>>]
            ELSE IF KeyEquals(k.v, index)
            THEN Found(readCompletely(s, at, Zeros(LeafEntrySize(type, descTree)), Omitted))
            ELSE ScanLeaf(s, type, descTree, start, index, n, x + 1, k.pos)
        At(at) == Entry(at, LeafKey(s, type, descTree, at))
    IN  IF x >= n THEN [kind |-> "none", x |-> n, pos |-> pos, bytes |-> <<>>]
        ELSE At(start + x * LeafEntrySize(type, descTree))

\* path is a ghost field: the descents made, each [page, from], the branch
\* page and the index of the entry whose child pointer was read
Thrown(why, pos, page) ==
    [status |-> why, bytes |-> <<>>, pos |-> pos, page |-> page, levels |-> -1, x |-> -1,
     path |-> <<>>]

\* ghost: the outcome r of the walk below a descent, with the descent recorded
Via(page, from, r) == [r EXCEPT !.path = <<[page |-> page, from |-> from]>> \o @]

\* the while loop, entered with the page at start and its marker bytes read.
\* seen is a ghost: the loop heads passed so far, each <<btreeStartOffset,
\* buffer>>.  The loop body is a function of these two and of the file, which
\* does not change, so a head met twice is met for ever: the call does not
\* return (status "diverges").
RECURSIVE FindLoop(_, _, _, _, _, _, _, _)
FindLoop(s, type, index, descTree, start, marker, pos, seen) ==
    LET Marker(c, k) ==
            IF k.err THEN Thrown("ioerror", k.pos, c.v)
            ELSE FindLoop(s, type, index, descTree, c.v, k.buf, k.pos,
                          seen \cup {<<start, marker>>})
        Child(c) ==
            IF c.err THEN Thrown("ioerror", c.pos, start)
            ELSE Marker(c, readCompletely(s, c.v + fileTypeAdjustment(type), marker, Omitted))
        Descend(from) ==
            Via(start, from,
                Child(extractLEFileOffset(s, type,
                          start + from * BranchEntrySize(type) + BranchChildAt(type))))
        Branch(m, b) ==
            IF b.kind = "err" THEN Thrown("ioerror", b.pos, start)
            ELSE Descend(IF b.kind = "child" THEN b.x - 1 ELSE m.n - 1)
        Leaf(m, l) ==
            IF l.kind = "err" THEN Thrown("ioerror", l.pos, start)
            ELSE IF l.kind = "none" THEN Thrown("notfound", l.pos, start)
            ELSE [status |-> "found", bytes |-> l.bytes, pos |-> l.pos,
                  page |-> start, levels |-> m.levels, x |-> l.x, path |-> <<>>]
        Page(m) ==
            IF m.err THEN Thrown("ioerror", m.pos, start)
            ELSE IF m.levels > 0
            THEN Branch(m, ScanBranch(s, type, start, index, m.n, 0, m.pos))
            ELSE Leaf(m, ScanLeaf(s, type, descTree, start, index, m.n, 0, m.pos))
    IN  IF ~MarkerOk(marker, descTree) THEN Thrown("nonode", pos, start)
        ELSE IF <<start, marker>> \in seen THEN Thrown("diverges", pos, start)
        ELSE Page(PageMeta(s, type, start))

\* findBtreeItem(index, descTree): the entry's bytes, or what was thrown, the
\* cursor it leaves, and the page the walk ended on
findBtreeItem(s, type, index, descTree) ==
    LET Marker(r, k) ==
            IF k.err THEN Thrown("ioerror", k.pos, r.v)
            ELSE FindLoop(s, type, index, descTree, r.v, k.buf, k.pos, {})
        Root(r) ==
            IF r.err THEN Thrown("ioerror", r.pos, 0)
            ELSE Marker(r, readCompletely(s, r.v + fileTypeAdjustment(type), Zeros(2), Omitted))
        Offset(a) ==
            IF a.err \/ ~descTree THEN Root(a)
            ELSE Root(extractLEFileOffset(s, type, RootOffsetPos(type, TRUE)))
    IN  Offset(extractLEFileOffset(s, type, RootOffsetPos(type, FALSE)))

(***************************************************************************)
(* The entry classes (DescriptorIndexNode, OffsetIndexItem): the fields of *)
(* an NBT and of a BBT leaf entry.                                         *)
(***************************************************************************)
DescriptorIndexNode(buf, type) ==
    IF type = PST_TYPE_ANSI
    THEN [descriptorIdentifier |-> LEFold(buf, 0, 3),
          dataOffsetIndexIdentifier |-> LEFold(buf, 4, 7),
          localDescriptorsOffsetIndexIdentifier |-> LEFold(buf, 8, 11),
          parentDescriptorIndexIdentifier |-> LEFold(buf, 12, 15)]
    ELSE [descriptorIdentifier |-> LEFold(buf, 0, 3),
          dataOffsetIndexIdentifier |-> LEFold(buf, 8, 15),
          localDescriptorsOffsetIndexIdentifier |-> LEFold(buf, 16, 23),
          parentDescriptorIndexIdentifier |-> LEFold(buf, 24, 27)]

OffsetIndexItem(buf, type) ==
    IF type = PST_TYPE_ANSI
    THEN [indexIdentifier |-> LEFold(buf, 0, 3), fileOffset |-> LEFold(buf, 4, 7),
          size |-> LEFold(buf, 8, 9)]
    ELSE [indexIdentifier |-> LEFold(buf, 0, 7), fileOffset |-> LEFold(buf, 8, 15),
          size |-> LEFold(buf, 16, 17)]

(***************************************************************************)
(* PSTFile.ts: processDescriptorBTree and getChildDescriptorTree.  The     *)
(* tree is a function from a parent id to the list of its children.        *)
(***************************************************************************)
EmptyMap == <<>>

\* the leaf loop's body with the new child put first in an existing list
AddChildFirst(tree, node) ==
    IF node.parentDescriptorIndexIdentifier = node.descriptorIdentifier THEN tree
    ELSE IF node.parentDescriptorIndexIdentifier \in DOMAIN tree
    THEN [tree EXCEPT ![node.parentDescriptorIndexIdentifier] = <<node>> \o @]
    ELSE (node.parentDescriptorIndexIdentifier :> <<node>>) @@ tree

\* the three branches of the leaf loop's body
AddChild(tree, node) ==
    IF node.parentDescriptorIndexIdentifier = node.descriptorIdentifier THEN tree
    ELSE IF node.parentDescriptorIndexIdentifier \in DOMAIN tree
    THEN [tree EXCEPT ![node.parentDescriptorIndexIdentifier] = Append(@, node)]
    ELSE (node.parentDescriptorIndexIdentifier :> <<node>>) @@ tree

\* numberOfItems and levelsToLeaf, read after a seek to the metadata
WalkMeta(s, type, start) == MetaAt(s, type, start + PayloadLength(type))

RECURSIVE processDescriptorBTree(_, _, _, _, _, _)
RECURSIVE WalkEntries(_, _, _, _, _, _, _, _, _)

\* the two for loops of a page, from entry x on; stack is a ghost, the pages
\* whose calls are on the call stack
WalkEntries(s, type, start, levels, n, x, tree, pos, stack) ==
    LET Sub(sub) ==
            IF sub.status # "ok" THEN sub
            ELSE WalkEntries(s, type, start, levels, n, x + 1, sub.tree, sub.pos, stack)
        Child(c) ==
            IF c.err THEN [status |-> "ioerror", tree |-> tree, pos |-> c.pos]
            ELSE Sub(processDescriptorBTree(s, type, c.v, tree, c.pos, stack))
        Entry(e) ==
            IF e.err THEN [status |-> "ioerror", tree |-> tree, pos |-> e.pos]
            ELSE WalkEntries(s, type, start, levels, n, x + 1,
                             AddChild(tree, DescriptorIndexNode(e.buf, type)), e.pos, stack)
    IN  IF x >= n THEN [status |-> "ok", tree |-> tree, pos |-> pos]
        ELSE IF levels > 0
        THEN Child(extractLEFileOffset(s, type,
                       start + BranchEntrySize(type) * x + BranchChildAt(type)))
        ELSE Entry(readCompletely(s, start + x * LeafEntrySize(type, TRUE),
                                  Zeros(LeafEntrySize(type, TRUE)), Omitted))

\* processDescriptorBTree(btreeStartOffset).  A call for a page whose call is
\* already on the stack repeats that call's recursion, the file being the
\* same: the recursion deepens until the engine's call stack is exhausted
\* and a RangeError is thrown (status "stackoverflow"; the map then holds the
\* children gathered on every level, of which the model keeps one level's).
processDescriptorBTree(s, type, btreeStartOffset, tree, pos, stack) ==
    LET Meta(m) ==
            IF m.err THEN [status |-> "ioerror", tree |-> tree, pos |-> m.pos]
            ELSE WalkEntries(s, type, btreeStartOffset, m.levels, m.n, 0, tree, m.pos,
                             stack \cup {btreeStartOffset})
        Marker(k) ==
            IF k.err THEN [status |-> "ioerror", tree |-> tree, pos |-> k.pos]
            ELSE IF ~(k.buf[1] = 129 /\ k.buf[2] = 129)
            THEN [status |-> "notdescriptor", tree |-> tree, pos |-> k.pos]
            ELSE Meta(WalkMeta(s, type, btreeStartOffset))
    IN  IF btreeStartOffset \in stack
        THEN [status |-> "stackoverflow", tree |-> tree, pos |-> pos]
        ELSE Marker(readCompletely(s, btreeStartOffset + fileTypeAdjustment(type),
                                   Zeros(2), Omitted))

\* this.childrenDescriptorTree is [null, map]: null, or a Map
NullTree == [null |-> TRUE, map |-> EmptyMap]
MapTree(map) == [null |-> FALSE, map |-> map]

\* getChildDescriptorTree without the null test: the map is rebuilt on every
\* call
NeedsBuildAlways(tree) == TRUE

\* does getChildDescriptorTree build the map?  `!this.childrenDescriptorTree`
NeedsBuild(tree) == tree.null

\* getChildDescriptorTree() on a handle whose map is tree and cursor is pos:
\* the map afterwards, the cursor, what is returned or thrown, and whether
\* the NBT was walked
getChildDescriptorTree(s, type, tree, pos) ==
    LET Walked(w) ==
            [status |-> w.status, tree |-> MapTree(w.tree), pos |-> w.pos, walked |-> TRUE]
        Root(r) ==
            IF r.err THEN [status |-> "ioerror", tree |-> tree, pos |-> r.pos, walked |-> FALSE]
            ELSE Walked(processDescriptorBTree(s, type, r.v, EmptyMap, r.pos, {}))
    IN  IF NeedsBuild(tree)
        THEN Root(extractLEFileOffset(s, type, RootOffsetPos(type, TRUE)))
        ELSE [status |-> "ok", tree |-> tree, pos |-> pos, walked |-> FALSE]

\* getLeafSize(bid) on a handle: the size returned, the cursor afterwards,
\* and what was thrown
getLeafSize(s, type, bid) ==
    LET Sum(r) ==
            IF r.err THEN [status |-> "ioerror", size |-> 0, pos |-> r.pos]
            ELSE [status |-> "ok",
                  size |-> convertLittleEndianBytesToLong(r.buf, Arg(4), Arg(8)),
                  pos |-> r.pos]
        Item(o, offsetItem) ==
            IF (offsetItem.indexIdentifier \div 2) % 2 = 0
            THEN [status |-> "ok", size |-> offsetItem.size, pos |-> o.pos]
            ELSE Sum(readCompletely(s, offsetItem.fileOffset, Zeros(8), Omitted))
        Found(o) ==
            IF o.status # "found" THEN [status |-> o.status, size |-> 0, pos |-> o.pos]
            ELSE Item(o, OffsetIndexItem(o.bytes, type))
    IN  Found(findBtreeItem(s, type, bid, FALSE))

(***************************************************************************)
(* PSTFile.ts: the name-to-ID map.  nodeMap is the static NodeMap shared   *)
(* by every PSTFile: numToId maps <<key, guidIndex>> to a property id,     *)
(* strToId maps a name (its UTF-16 code units) to a property id, idToNum   *)
(* maps a property id back to its numeric name.                            *)
(***************************************************************************)
\* guidMap: entry i + 1 is the GUID of index i, as the 16 bytes its string
\* form spells
guidMap == <<
    <<0, 2, 3, 41, 0, 0, 0, 0, 192, 0, 0, 0, 0, 0, 0, 70>>,
    <<0, 6, 32, 8, 0, 0, 0, 0, 192, 0, 0, 0, 0, 0, 0, 70>>,
    <<0, 6, 32, 4, 0, 0, 0, 0, 192, 0, 0, 0, 0, 0, 0, 70>>,
    <<0, 2, 3, 134, 0, 0, 0, 0, 192, 0, 0, 0, 0, 0, 0, 70>>,
    <<0, 6, 32, 2, 0, 0, 0, 0, 192, 0, 0, 0, 0, 0, 0, 70>>,
    <<110, 216, 218, 144, 69, 11, 16, 27, 152, 218, 0, 170, 0, 63, 19, 5>>,
    <<0, 6, 32, 10, 0, 0, 0, 0, 192, 0, 0, 0, 0, 0, 0, 70>>,
    <<65, 242, 143, 19, 131, 244, 65, 20, 165, 132, 238, 219, 90, 107, 11, 255>>,
    <<0, 6, 32, 14, 0, 0, 0, 0, 192, 0, 0, 0, 0, 0, 0, 70>>,
    <<0, 6, 32, 65, 0, 0, 0, 0, 192, 0, 0, 0, 0, 0, 0, 70>>,
    <<0, 6, 32, 3, 0, 0, 0, 0, 192, 0, 0, 0, 0, 0, 0, 70>>,
    <<68, 66, 133, 142, 169, 227, 78, 128, 185, 0, 49, 122, 33, 12, 193, 91>>,
    <<0, 2, 3, 40, 0, 0, 0, 0, 192, 0, 0, 0, 0, 0, 0, 70>>,
    <<113, 3, 85, 73, 7, 57, 77, 203, 145, 99, 0, 240, 88, 13, 187, 223>>,
    <<0, 6, 32, 64, 0, 0, 0, 0, 192, 0, 0, 0, 0, 0, 0, 70>>
>>

EmptyNodeMap == [numToId |-> <<>>, strToId |-> <<>>, idToNum |-> <<>>]

\* NodeMap.setId(key, propId, idx) and NodeMap.setId(name, propId)
NodeMapSetNumeric(nm, key, propId, idx) ==
    [nm EXCEPT !.numToId = (<<key, idx>> :> propId) @@ @,
               !.idToNum = (propId :> <<key, idx>>) @@ @]

NodeMapSetString(nm, name, propId) ==
    [nm EXCEPT !.strToId = (name :> propId) @@ @]

\* NodeMap.getId(key, idx), NodeMap.getId(name), NodeMap.getNumericName(propId);
\* -1 stands for "no entry"
NodeMapGetNumeric(nm, key, idx) ==
    IF <<key, idx>> \in DOMAIN nm.numToId THEN nm.numToId[<<key, idx>>] ELSE -1

NodeMapGetString(nm, name) ==
    IF name \in DOMAIN nm.strToId THEN nm.strToId[name] ELSE -1

NodeMapGetNumericName(nm, propId) ==
    IF propId \in DOMAIN nm.idToNum THEN nm.idToNum[propId] ELSE <<>>

\* the three lookups of the API, all on the static map
getNameToIdMapItem(nm, key, idx) == NodeMapGetNumeric(nm, key, idx)
getPublicStringToIdMapItem(nm, name) == NodeMapGetString(nm, name)
getNameToIdMapKey(nm, propId) == NodeMapGetNumericName(nm, propId)

\* strUID of the GUID at offset in the GUID blob: the bytes of
\* mostSigBits.toBytes() followed by leastSigBits.toBytes()
GuidString(guids, offset) ==
    <<guids[offset + 4], guids[offset + 3], guids[offset + 2], guids[offset + 1],
      guids[offset + 6], guids[offset + 5], guids[offset + 8], guids[offset + 7]>>
    \o [i \in 1..8 |-> guids[offset + 8 + i]]

\* guidIndexes[i]: `guid ? guid : -1` for guid = this.guidMap.get(strUID)
GuidIndexOf(uid) ==
    LET hits == {i \in 0..(Len(guidMap) - 1) : guidMap[i + 1] = uid}
    IN  IF hits = {} THEN -1
        ELSE LET guid == CHOOSE i \in hits : TRUE IN IF guid # 0 THEN guid ELSE -1

GuidIndexes(guids) ==
    [i \in 1..(Len(guids) \div 16) |-> GuidIndexOf(GuidString(guids, 16 * (i - 1)))]

\* src[i] of a Buffer, 0 where the index is outside it
BufAt(buf, i) == IF i >= 0 /\ i < Len(buf) THEN buf[i + 1] ELSE 0

\* keyByteValue.toString("utf16le").replace(/\0/g, ""): the code units of
\* the len bytes at from, without the zero units
RECURSIVE Utf16Name(_, _, _)
Utf16Name(buf, from, len) ==
    IF len < 2 THEN <<>>
    ELSE LET u == BufAt(buf, from) + 256 * BufAt(buf, from + 1)
         IN  (IF u = 0 THEN <<>> ELSE <<u>>) \o Utf16Name(buf, from + 2, len - 2)

\* does the entry loop run for x?  `x + 8 < nameToIdByte.length`
EntryLoopRuns(x, length) == x + 8 < length

\* guidIndexes[guid - 3] and the two fixed property sets; {} when undefined
GuidIndexAt(guidIndexes, g) ==
    IF g = 1 THEN Arg(PS_MAPI)
    ELSE IF g = 2 THEN Arg(PS_PUBLIC_STRINGS)
    ELSE IF (g - 3) \in 0..(Len(guidIndexes) - 1) THEN Arg(guidIndexes[g - 3 + 1])
    ELSE Omitted

\* the entry loop from x on; status "badparam" when setId is handed an
\* undefined GUID index
RECURSIVE ProcessEntries(_, _, _, _, _)
ProcessEntries(nameToIdByte, stringNameToIdByte, guidIndexes, x, nm) ==
    LET Numeric(key, propId, guidIndex) ==
            IF guidIndex = Omitted THEN [status |-> "badparam", nodeMap |-> nm]
            ELSE ProcessEntries(nameToIdByte, stringNameToIdByte, guidIndexes, x + 8,
                                NodeMapSetNumeric(nm, key, propId + 32768, ArgVal(guidIndex)))
        String(key, propId, len) ==
            ProcessEntries(nameToIdByte, stringNameToIdByte, guidIndexes, x + 8,
                           NodeMapSetString(nm, Utf16Name(stringNameToIdByte, key + 4, len),
                                            propId + 32768))
        Entry(key, guid, propId) ==
            IF guid % 2 = 0
            THEN Numeric(key, propId, GuidIndexAt(guidIndexes, guid \div 2))
            ELSE String(key, propId,
                        LEFold([i \in 1..4 |-> BufAt(stringNameToIdByte, key + i - 1)], 0, 3))
    IN  IF ~EntryLoopRuns(x, Len(nameToIdByte)) THEN [status |-> "ok", nodeMap |-> nm]
        ELSE Entry(convertLittleEndianBytesToLong(nameToIdByte, Arg(x), Arg(x + 4)),
                   convertLittleEndianBytesToLong(nameToIdByte, Arg(x + 4), Arg(x + 6)),
                   convertLittleEndianBytesToLong(nameToIdByte, Arg(x + 6), Arg(x + 8)))

\* a name-to-ID entry {id, guidRef, propIndex} as its 8 bytes
NameEntryBytes(id, guidRef, propIndex) ==
    LEBytes(id, 4) \o LEBytes(guidRef, 2) \o LEBytes(propIndex, 2)

\* a GUID as a writer stores it: the first three groups little-endian
GuidFileBytes(uid) == GuidString(uid, 0)

\* the blobs of properties 2 (GUIDs), 3 (entries) and 4 (string stream) of
\* the name-to-ID node of a file generated with names = token
PcStreams(token) ==
    [guids   |-> GuidFileBytes(guidMap[2]) \o GuidFileBytes(guidMap[9]),
     entries |-> NameEntryBytes(34049, 6, IF token = "A" THEN 1 ELSE 5)
                 \o NameEntryBytes(0, 5, IF token = "A" THEN 2 ELSE 6)
                 \o NameEntryBytes(34050, 8, 3)
                 \o NameEntryBytes(16, 2, 4),
     strings |-> LEBytes(4, 4) \o <<75, 0, 119, 0>>]

\* tableItems.get(2), get(3), get(4) with getData: the blobs the property
\* context at the node's data block delivers
TableItems(d) == PcStreams(d.pc)

\* processNameToIDMap(): the static map afterwards, the cursor, and what was
\* thrown
processNameToIDMap(s, type, nm) ==
    LET Filled(o, p) == [status |-> p.status, nodeMap |-> p.nodeMap, pos |-> o.pos]
        Streams(o, items) ==
            Filled(o, ProcessEntries(items.entries, items.strings,
                                     GuidIndexes(items.guids), 0, nm))
        Block(o) ==
            IF o.status # "found" THEN [status |-> o.status, nodeMap |-> nm, pos |-> o.pos]
            ELSE Streams(o, TableItems(s.d))
        Node(n) ==
            IF n.status # "found" THEN [status |-> n.status, nodeMap |-> nm, pos |-> n.pos]
            ELSE Block(findBtreeItem(s, type,
                           DescriptorIndexNode(n.bytes, type).dataOffsetIndexIdentifier, FALSE))
    IN  Node(findBtreeItem(s, type, NAME_TO_ID_MAP_DESCRIPTOR, TRUE))

(***************************************************************************)
(* PSTFile.ts: the constructor.                                            *)
(***************************************************************************)
\* buffer[i] of the 514-byte header buffer after readSync(buffer, 514, 0)
HeaderByte(s, i) == IF i < Available(s, HEADER_LENGTH, 0) THEN ByteAt(s.d, i) ELSE 0

\* the "!BDN" test
MagicOk(s) ==
    /\ HeaderByte(s, 0) = 33
    /\ HeaderByte(s, 1) = 66
    /\ HeaderByte(s, 2) = 68
    /\ HeaderByte(s, 3) = 78

\* the constructor without the ANSI_2 normalisation
NormaliseVersionSkipped(b) == b

\* buffer[10] after `if (buffer[10] === PST_TYPE_ANSI_2) buffer[10] = PST_TYPE_ANSI`
NormaliseVersion(b) == IF b = PST_TYPE_ANSI_2 THEN PST_TYPE_ANSI ELSE b

\* the supported versions
SupportedVersion(b) == b \in {PST_TYPE_ANSI, PST_TYPE_UNICODE, PST_TYPE_2013_UNICODE}

\* the encryption byte's offset
EncryptionOffset(type) == IF type = PST_TYPE_ANSI THEN 461 ELSE 513

\* the encryption test against the wrong constant
RejectedEncryptionCompressible(enc) == enc = ENCRYPTION_TYPE_COMPRESSIBLE

\* the encryption types the constructor refuses
RejectedEncryption(enc) == enc = 2

\* new PSTFile(pst) over source s with the static map nm: the fields of the
\* instance and the static map afterwards, or what was thrown
Constructor(s, nm) ==
    LET thrown(why, map) == [status |-> why, pstFileType |-> 0, encryptionType |-> 0,
                             nodeMap |-> map, pos |-> 0]
        Names(type, enc, p) ==
            IF p.status # "ok" THEN thrown(p.status, p.nodeMap)
            ELSE [status |-> "ok", pstFileType |-> type, encryptionType |-> enc,
                  nodeMap |-> p.nodeMap, pos |-> p.pos]
        Encryption(type, enc) ==
            IF RejectedEncryption(enc) THEN thrown("encrypted", nm)
            ELSE Names(type, enc, processNameToIDMap(s, type, nm))
        Version(type) ==
            IF ~SupportedVersion(type) THEN thrown("unsupported", nm)
            ELSE Encryption(type, HeaderByte(s, EncryptionOffset(type)))
    IN  IF ReadSyncErr(s, 0) THEN thrown("ioerror", nm)
        ELSE IF ~MagicOk(s) THEN thrown("badheader", nm)
        ELSE Version(NormaliseVersion(HeaderByte(s, 10)))

(***************************************************************************)
(* The inputs of the model.                                                *)
(***************************************************************************)
File(magic, ver, enc, shape, names) ==
    [magic |-> magic, ver |-> ver, enc |-> enc, shape |-> shape, names |-> names]

\* files that open: every version, encryption bytes 0, 1 and 16, both shapes
\* of tree, two name-to-ID maps
GoodFiles ==
    {File(TRUE, v, 0, "flat", "A") : v \in {14, 15, 23, 36}}
    \cup {File(TRUE, v, 1, "flat", "A") : v \in {15, 23}}
    \cup {File(TRUE, v, 0, "deep", "B") : v \in {14, 23, 36}}
    \cup {File(TRUE, v, 16, "flat", "A") : v \in {15, 23}}

\* files the constructor refuses
BadFiles ==
    {File(TRUE, v, 2, "flat", "A") : v \in {14, 15, 36}}
    \cup {File(FALSE, 23, 0, "flat", "A"), File(TRUE, 21, 0, "flat", "A")}
    \cup {File(TRUE, 14, 0, "nomap", "A"), File(TRUE, 23, 0, "noblock", "A"),
          File(TRUE, 36, 0, "badmark", "A")}

Files == GoodFiles \cup BadFiles

\* the files the calls on one handle are tried on: files that open, one of
\* them with corrupt leaves, one whose NBT holds the entry of node 8226
\* twice (last of the first leaf, first of the second)
CallFiles ==
    {File(TRUE, 14, 0, "flat", "A"), File(TRUE, 15, 1, "flat", "A"),
     File(TRUE, 14, 0, "deep", "B"), File(TRUE, 23, 0, "deep", "B"),
     File(TRUE, 36, 0, "deep", "B"), File(TRUE, 23, 1, "flat", "A"),
     File(TRUE, 23, 0, "badleaf", "B"), File(TRUE, 23, 0, "dup", "B")}

\* files whose page graph has a cycle: the last entry of each root page
\* points to the root page itself
CycleFiles == {File(TRUE, 23, 0, "cycle", "B"), File(TRUE, 14, 0, "cycle", "B")}

\* the files on disk, by name (an explicit table: the contents are generated
\* once)
Disk == [f \in Files \cup CallFiles \cup CycleFiles |-> FileContent(f)] @@ <<>>

\* a named property <<key, GUID index>> that the generated maps hold
NameKeys == {<<34049, 1>>}
DescriptorKeys == {290, 8226, 100, 1}
OffsetKeys == {8, 6, 96}
\* block ids whose size is asked for: a data block, and an internal block
\* (bit 1 set) that one of the files holds
LeafSizeKeys == {8, 98}
SeekTargets == {7, 4095}
ReadArgs == {Omitted, Arg(0), Arg(10)}
ReadCompletelyArgs == {Omitted, Arg(0), Arg(1023)}
ReadLengths == {2}
DecodeSamples == {0, 71, 146, 255}

(***************************************************************************)
(* The state and the calls.                                                *)
(***************************************************************************)
NoResult == [op |-> "none", h |-> 0, status |-> "ok"]

NoCalls == [opens |-> 0, calls |-> 0]

\* no attachment constructed
NoAttachment == [made |-> FALSE]

Init ==
    /\ handles = <<>>
    /\ fdTable = <<>>
    /\ heap = <<>>
    /\ nodeMap = EmptyNodeMap
    /\ result = NoResult
    /\ steps = NoCalls
    /\ data = <<>>
    /\ data0 = <<>>
    /\ ndecode = 0
    /\ objects = <<>>
    /\ attachment = NoAttachment

\* fs.openSync returns the lowest descriptor not in use (0, 1, 2 are the
\* standard streams)
NextFd(fdT) == CHOOSE n \in 3..(3 + Cardinality(DOMAIN fdT)) :
                  /\ n \notin DOMAIN fdT
                  /\ \A k \in 3..(n - 1) : k \in DOMAIN fdT

\* A caller's buffer is [file, writes]: the file whose bytes it was filled
\* with, and the bytes written into it since, offset -> byte
FilledBuffer(f) == [file |-> f, writes |-> <<>>]

BufferContent(b) ==
    IF b.writes = <<>> THEN Disk[b.file]
    ELSE [Disk[b.file] EXCEPT
             !.bytes = [i \in 1..Len(@) |->
                           IF (i - 1) \in DOMAIN b.writes THEN b.writes[i - 1] ELSE @[i]]]

\* the header check done on the caller's buffer itself: 15 is overwritten there
CallerBuffersNormalised(hp, b) ==
    IF ByteAt(Disk[hp[b].file], 10) = PST_TYPE_ANSI_2
    THEN [hp EXCEPT ![b].writes = (10 :> PST_TYPE_ANSI) @@ @]
    ELSE hp

\* the caller's buffers after the constructor's header check on buffer b: the
\* header is read into a buffer of the constructor's own (Buffer.alloc(514)),
\* and the write to buffer[10] lands there
CallerBuffersAfterOpen(hp, b) == hp

\* the source a handle reads: `this.pstFD > 0` selects the descriptor
Source(h) ==
    IF h.pstFD > 0
    THEN [kind |-> "fd", open |-> h.pstFD \in DOMAIN fdTable,
          d |-> IF h.pstFD \in DOMAIN fdTable THEN Disk[fdTable[h.pstFD].name]
                ELSE [len |-> 0, bytes |-> <<>>, pc |-> ""]]
    ELSE [kind |-> "buffer", open |-> TRUE, d |-> BufferContent(heap[h.pstBuffer])]

Handle(out, name, fd, buf) ==
    [pstFileType |-> out.pstFileType, encryptionType |-> out.encryptionType,
     pstFilename |-> name, pstFD |-> fd, pstBuffer |-> buf, position |-> out.pos,
     childrenDescriptorTree |-> NullTree, walks |-> 0, complete |-> FALSE,
     mapAtOpen |-> out.nodeMap]

\* the flags fs.openSync is called with
OpenFlags == "r"

\* new PSTFile(path) with hs, fdT, nm the instances, the descriptor table and
\* the static map before: the descriptor is opened, then the checks run
PathOpened(f, hs, fdT, nm) ==
    LET Made(fd, out) ==
            [fdTable |-> (fd :> [name |-> f, flags |-> OpenFlags]) @@ fdT,
             handles |-> IF out.status = "ok" THEN Append(hs, Handle(out, <<f>>, fd, 0))
                         ELSE hs,
             nodeMap |-> out.nodeMap,
             result  |-> [op |-> "open", h |-> IF out.status = "ok" THEN Len(hs) + 1 ELSE 0,
                          status |-> out.status, kind |-> "path", file |-> f, fd |-> fd]]
    IN  Made(NextFd(fdT), Constructor([kind |-> "fd", open |-> TRUE, d |-> Disk[f]], nm))

\* new PSTFile(buffer), the caller's buffer holding the bytes of file f
BufferOpened(f, hs, hp, nm) ==
    LET Made(b, out) ==
            [heap    |-> CallerBuffersAfterOpen(Append(hp, FilledBuffer(f)), b),
             handles |-> IF out.status = "ok" THEN Append(hs, Handle(out, <<>>, -1, b))
                         ELSE hs,
             nodeMap |-> out.nodeMap,
             result  |-> [op |-> "open", h |-> IF out.status = "ok" THEN Len(hs) + 1 ELSE 0,
                          status |-> out.status, kind |-> "buffer", file |-> f, fd |-> -1]]
    IN  Made(Len(hp) + 1,
             Constructor([kind |-> "buffer", open |-> TRUE, d |-> Disk[f]], nm))

\* the assignments of a constructor call that leaves o
Opened(o) ==
    /\ steps.opens < MaxOpens
    /\ handles' = o.handles
    /\ nodeMap' = o.nodeMap
    /\ result' = o.result
    /\ steps' = [steps EXCEPT !.opens = @ + 1]
    /\ UNCHANGED <<data, data0, ndecode, objects, attachment>>

ConstructPath(f) ==
    LET Made(o) == Opened(o) /\ fdTable' = o.fdTable /\ UNCHANGED heap
    IN  Made(PathOpened(f, handles, fdTable, nodeMap))

ConstructBuffer(f) ==
    LET Made(o) == Opened(o) /\ heap' = o.heap /\ UNCHANGED fdTable
    IN  Made(BufferOpened(f, handles, heap, nodeMap))

\* does close() call fs.closeSync?  `this.pstFD > 0`
ClosesDescriptor(h) == h.pstFD > 0

\* close(): fs.closeSync throws on a descriptor that is not open
Close(i) ==
    LET h == handles[i]
        bad == ClosesDescriptor(h) /\ h.pstFD \notin DOMAIN fdTable
    IN  /\ steps.calls < MaxCalls
        /\ fdTable' = IF ClosesDescriptor(h)
                      THEN [n \in DOMAIN fdTable \ {h.pstFD} |-> fdTable[n]]
                      ELSE fdTable
        /\ result' = [op |-> "close", h |-> i, status |-> IF bad THEN "ioerror" ELSE "ok"]
        /\ steps' = [steps EXCEPT !.calls = @ + 1]
        /\ UNCHANGED <<handles, heap, nodeMap, data, data0, ndecode, objects, attachment>>

\* seek(index)
Seek(i, index) ==
    /\ steps.calls < MaxCalls
    /\ handles' = [handles EXCEPT ![i].position = index]
    /\ result' = [op |-> "seek", h |-> i, status |-> "ok"]
    /\ steps' = [steps EXCEPT !.calls = @ + 1]
    /\ UNCHANGED <<fdTable, heap, nodeMap, data, data0, ndecode, objects, attachment>>

\* read(position?)
Read(i, posArg) ==
    LET Returns(before, r) ==
            /\ steps.calls < MaxCalls
            /\ handles' = [handles EXCEPT ![i].position = r.pos]
            /\ result' = [op |-> "read", h |-> i, status |-> IF r.err THEN "ioerror" ELSE "ok",
                          posArg |-> posArg, before |-> before, bytes |-> <<r.v>>]
            /\ steps' = [steps EXCEPT !.calls = @ + 1]
            /\ UNCHANGED <<fdTable, heap, nodeMap, data, data0, ndecode, objects, attachment>>
    IN  Returns(handles[i].position, read(Source(handles[i]), handles[i].position, posArg))

\* readCompletely(buffer, position?) with a fresh buffer of length bytes
ReadCompletely(i, length, posArg) ==
    LET Returns(before, r) ==
            /\ steps.calls < MaxCalls
            /\ handles' = [handles EXCEPT ![i].position = r.pos]
            /\ result' = [op |-> "readCompletely", h |-> i,
                          status |-> IF r.err THEN "ioerror" ELSE "ok",
                          posArg |-> posArg, before |-> before, bytes |-> r.buf]
            /\ steps' = [steps EXCEPT !.calls = @ + 1]
            /\ UNCHANGED <<fdTable, heap, nodeMap, data, data0, ndecode, objects, attachment>>
    IN  Returns(handles[i].position,
                readCompletely(Source(handles[i]), handles[i].position, Zeros(length), posArg))

\* getDescriptorIndexNode(id) and getOffsetIndexNode(id): findBtreeItem
Lookup(i, id, descTree) ==
    LET Returns(r) ==
            /\ steps.calls < MaxCalls
            /\ handles' = [handles EXCEPT ![i].position = r.pos]
            /\ result' = [op |-> "findBtreeItem", h |-> i, status |-> r.status, index |-> id,
                          descTree |-> descTree, bytes |-> r.bytes, page |-> r.page,
                          levels |-> r.levels, x |-> r.x, path |-> r.path]
            /\ steps' = [steps EXCEPT !.calls = @ + 1]
            /\ UNCHANGED <<fdTable, heap, nodeMap, data, data0, ndecode, objects, attachment>>
    IN  Returns(findBtreeItem(Source(handles[i]), handles[i].pstFileType, id, descTree))

GetDescriptorIndexNode(i, id) == Lookup(i, id, TRUE)
GetOffsetIndexNode(i, id) == Lookup(i, id, FALSE)

\* getChildDescriptorTree()
GetChildDescriptorTree(i) ==
    LET Returns(before, r) ==
            /\ steps.calls < MaxCalls
            /\ handles' = [handles EXCEPT ![i].position = r.pos,
                                          ![i].childrenDescriptorTree = r.tree,
                                          ![i].walks = @ + (IF r.walked THEN 1 ELSE 0),
                                          ![i].complete =
                                              @ \/ (r.walked /\ r.status = "ok")]
            /\ result' = [op |-> "getChildDescriptorTree", h |-> i, status |-> r.status,
                          tree |-> r.tree, before |-> before, walked |-> r.walked]
            /\ steps' = [steps EXCEPT !.calls = @ + 1]
            /\ UNCHANGED <<fdTable, heap, nodeMap, data, data0, ndecode, objects, attachment>>
    IN  Returns(handles[i].position,
                getChildDescriptorTree(Source(handles[i]), handles[i].pstFileType,
                                       handles[i].childrenDescriptorTree,
                                       handles[i].position))

\* getLeafSize(bid)
GetLeafSize(i, bid) ==
    LET Returns(r) ==
            /\ steps.calls < MaxCalls
            /\ handles' = [handles EXCEPT ![i].position = r.pos]
            /\ result' = [op |-> "getLeafSize", h |-> i, status |-> r.status, index |-> bid,
                          size |-> r.size]
            /\ steps' = [steps EXCEPT !.calls = @ + 1]
            /\ UNCHANGED <<fdTable, heap, nodeMap, data, data0, ndecode, objects, attachment>>
    IN  Returns(getLeafSize(Source(handles[i]), handles[i].pstFileType, bid))

\* getNameToIdMapItem(key, idx): a lookup in the static map
GetNameToIdMapItem(i, key, idx) ==
    /\ steps.calls < MaxCalls
    /\ result' = [op |-> "getNameToIdMapItem", h |-> i, status |-> "ok", key |-> key,
                  idx |-> idx, id |-> getNameToIdMapItem(nodeMap, key, idx)]
    /\ steps' = [steps EXCEPT !.calls = @ + 1]
    /\ UNCHANGED <<handles, fdTable, heap, nodeMap, data, data0, ndecode, objects, attachment>>

\* The constructor alone: instances are constructed over any of the files,
\* from a path or from a buffer.
NextOpen ==
    \/ \E f \in Files : ConstructPath(f)
    \/ \E f \in Files : ConstructBuffer(f)

SpecOpen == Init /\ [][NextOpen]_vars

\* The life of the process: instances are constructed, looked up in and
\* closed.
Next ==
    \/ \E f \in Files : ConstructPath(f)
    \/ \E f \in Files : ConstructBuffer(f)
    \/ \E i \in DOMAIN handles : Close(i)
    \/ \E i \in DOMAIN handles, k \in NameKeys : GetNameToIdMapItem(i, k[1], k[2])

Spec == Init /\ [][Next]_vars

\* the state after one successful constructor call on one of files
InitOver(files) ==
    LET Made(o, fdT, hp) ==
            /\ handles = o.handles
            /\ fdTable = fdT
            /\ heap = hp
            /\ nodeMap = o.nodeMap
            /\ result = o.result
            /\ steps = [opens |-> 1, calls |-> 0]
            /\ data = <<>>
            /\ data0 = <<>>
            /\ ndecode = 0
            /\ objects = <<>>
            /\ attachment = NoAttachment
        ByPath(o) == Made(o, o.fdTable, <<>>)
        ByBuffer(o) == Made(o, <<>>, o.heap)
    IN  \E f \in files :
            \/ ByPath(PathOpened(f, <<>>, <<>>, EmptyNodeMap))
            \/ ByBuffer(BufferOpened(f, <<>>, <<>>, EmptyNodeMap))

\* The calls on one instance: the state after one successful constructor
\* call, then seeks, reads, lookups, the NBT walk and close.
InitCalls == InitOver(CallFiles)

NextCalls ==
    \/ \E i \in DOMAIN handles : Close(i)
    \/ \E i \in DOMAIN handles, p \in SeekTargets : Seek(i, p)
    \/ \E i \in DOMAIN handles, a \in ReadArgs : Read(i, a)
    \/ \E i \in DOMAIN handles, n \in ReadLengths, a \in ReadCompletelyArgs :
           ReadCompletely(i, n, a)
    \/ \E i \in DOMAIN handles, k \in DescriptorKeys : GetDescriptorIndexNode(i, k)
    \/ \E i \in DOMAIN handles, k \in OffsetKeys : GetOffsetIndexNode(i, k)
    \/ \E i \in DOMAIN handles : GetChildDescriptorTree(i)
    \/ \E i \in DOMAIN handles, k \in LeafSizeKeys : GetLeafSize(i, k)

SpecCalls == InitCalls /\ [][NextCalls]_vars

\* The lookups and the NBT walk on one instance over a file whose page graph
\* has a cycle.
InitCycle == InitOver(CycleFiles)

NextCycle ==
    \/ \E i \in DOMAIN handles : Close(i)
    \/ \E i \in DOMAIN handles, k \in DescriptorKeys : GetDescriptorIndexNode(i, k)
    \/ \E i \in DOMAIN handles, k \in OffsetKeys : GetOffsetIndexNode(i, k)
    \/ \E i \in DOMAIN handles, k \in LeafSizeKeys : GetLeafSize(i, k)
    \/ \E i \in DOMAIN handles : GetChildDescriptorTree(i)

SpecCycle == InitCycle /\ [][NextCycle]_vars

(***************************************************************************)
(* decode on its own: a buffer, decoded up to MaxDecodes times.            *)
(***************************************************************************)
RECURSIVE Buffers(_, _)
Buffers(n, bytes) ==
    IF n = 0 THEN {<<>>}
    ELSE Buffers(n - 1, bytes) \cup {Append(b, x) : b \in Buffers(n - 1, bytes), x \in bytes}

InitDecode ==
    /\ handles = <<>>
    /\ fdTable = <<>>
    /\ heap = <<>>
    /\ nodeMap = EmptyNodeMap
    /\ result = NoResult
    /\ steps = NoCalls
    /\ data \in Buffers(1, 0..255) \cup Buffers(MaxDecodeLen, DecodeSamples)
    /\ data0 = data
    /\ ndecode = 0
    /\ objects = <<>>
    /\ attachment = NoAttachment

Decode ==
    /\ ndecode < MaxDecodes
    /\ data' = decode(data)
    /\ ndecode' = ndecode + 1
    /\ UNCHANGED <<handles, fdTable, heap, nodeMap, result, steps, data0, objects, attachment>>

NextDecode == Decode

SpecDecode == InitDecode /\ [][NextDecode]_vars

(***************************************************************************)
(* PSTUtil.ts: createAppropriatePSTMessageObject.  A PC table is the map   *)
(* of its items, property id -> string value; an optional string is a      *)
(* sequence of at most one string, <<>> for undefined.                     *)
(***************************************************************************)
\* table.getItems().get(0x001a)?.getStringValue()
MessageClassOf(table) == IF 26 \in DOMAIN table THEN <<table[26]>> ELSE <<>>

\* the case labels of the switch, by the constructor their clause calls
NoteClasses ==
    {<<"IPM.Note">>, <<"IPM.Note.SMIME.MultipartSigned">>, <<"IPM.Note.Agenda">>}

AppointmentClasses ==
    {<<"IPM.Appointment">>, <<"IPM.OLE.CLASS.{00061055-0000-0000-C000-000000000046}">>,
     <<"IPM.Schedule.Meeting.Canceled">>, <<"IPM.Schedule.Meeting.Resp.Pos">>,
     <<"IPM.Schedule.Meeting.Resp.Tent">>, <<"IPM.Schedule.Meeting.Notification.Forward">>,
     <<"IPM.Schedule.Meeting.Resp.Neg">>}

ContactClasses == {<<"IPM.Contact">>}
TaskClasses == {<<"IPM.Task">>}
ActivityClasses == {<<"IPM.Activity">>}

\* the labels after IPM.Activity: each clause calls new PSTMessage
OtherMessageClasses ==
    {<<"IPM.Post.Rss">>, <<"IPM.DistList">>, <<"IPM.Note.Rules.OofTemplate.Microsoft">>,
     <<"IPM.Schedule.Meeting.Request">>, <<"REPORT.IPM.Note.NDR">>, <<"IPM.StickyNote">>,
     <<"REPORT.IPM.Note.IPNRN">>, <<"REPORT.IPM.Note.IPNNRN">>, <<"REPORT.IPM.Note.DR">>}

\* what the call gives: the object made, and whether console.error was called
Created(type, table, diagnostic) ==
    [status |-> "ok", type |-> type, table |-> table, diagnostic |-> diagnostic]

\* a default clause that throws instead of returning a PSTMessage
DefaultClauseThrows(table) ==
    [status |-> "error", type |-> "none", table |-> table, diagnostic |-> TRUE]

\* the default clause: console.error, then new PSTMessage
DefaultClause(table) == Created("PSTMessage", table, TRUE)

createAppropriatePSTMessageObject(table) ==
    LET Switch(messageClass) ==
            IF messageClass \in NoteClasses THEN Created("PSTMessage", table, FALSE)
            ELSE IF messageClass \in AppointmentClasses
            THEN Created("PSTAppointment", table, FALSE)
            ELSE IF messageClass \in ContactClasses THEN Created("PSTContact", table, FALSE)
            ELSE IF messageClass \in TaskClasses THEN Created("PSTTask", table, FALSE)
            ELSE IF messageClass \in ActivityClasses THEN Created("PSTActivity", table, FALSE)
            ELSE IF messageClass \in OtherMessageClasses
            THEN Created("PSTMessage", table, FALSE)
            ELSE DefaultClause(table)
    IN  Switch(MessageClassOf(table))

\* the message classes tried: every case label, the task requests, classes
\* no label names
DispatchClasses ==
    NoteClasses \cup AppointmentClasses \cup ContactClasses \cup TaskClasses
    \cup ActivityClasses \cup OtherMessageClasses
    \cup {<<"IPM.TaskRequest">>, <<"IPM.TaskRequest.Accept">>, <<"IPM.TaskRequest.Decline">>,
          <<"IPM.TaskRequest.Update">>, <<"IPM.Zzz">>, <<"IPM">>, <<"">>}

\* the tables tried: a subject (0x0037), and a message class (0x001A) or none
DispatchTables ==
    {(26 :> c[1]) @@ (55 :> "subject") : c \in DispatchClasses} \cup {(55 :> "subject")}

\* createAppropriatePSTMessageObject(theFile, folderIndexNode, table, ...)
CreateAppropriatePSTMessageObject(table) ==
    LET Returns(r) ==
            /\ Len(objects) < MaxObjects
            /\ objects' = IF r.status = "ok" THEN Append(objects, r) ELSE objects
            /\ result' = [op |-> "createAppropriatePSTMessageObject", h |-> 0,
                          status |-> r.status, table |-> table]
            /\ UNCHANGED <<handles, fdTable, heap, nodeMap, steps, data, data0, ndecode,
                           attachment>>
    IN  Returns(createAppropriatePSTMessageObject(table))

NextDispatch == \E t \in DispatchTables : CreateAppropriatePSTMessageObject(t)

SpecDispatch == Init /\ [][NextDispatch]_vars

(***************************************************************************)
(* PSTAttachment (src/unnamed/part_001).  An attachment holds the items of *)
(* its PC table (property id -> PSTTableItem), its sub-node map            *)
(* localDescriptorItems ([null, map], local id -> PSTDescriptorItem) and   *)
(* its descriptorIndexNode (present or null).  The bytes of an item or of  *)
(* a sub-node, and the PC table a PSTTableBC over them delivers, are       *)
(* [data, pc].                                                             *)
(***************************************************************************)
ATTACHMENT_METHOD_BY_VALUE == 1
ATTACHMENT_METHOD_EMBEDDED == 5
PR_ATTACH_DATA_BIN == 14081
PR_ATTACH_METHOD == 14085

\* a PSTTableItem
PSTTableItem(type, external, reference, bytes, pc) ==
    [entryValueType |-> type, isExternalValueReference |-> external,
     entryValueReference |-> reference, data |-> bytes, pc |-> pc]

\* a PSTDescriptorItem
PSTDescriptorItem(id, subNode, size, pc) ==
    [descriptorIdentifier |-> id, subNodeOffsetIndexIdentifier |-> subNode,
     dataSize |-> size, pc |-> pc]

\* PSTObject.getIntItem(id): the item's value, 0 without the item
getIntItem(items, id) == IF id \in DOMAIN items THEN items[id].entryValueReference ELSE 0

\* new PSTNodeInputStream(pstFile, x, encrypted?): a stream over an item's
\* data or over a sub-node; encrypted is the third argument, Omitted in the
\* two-argument calls
PSTNodeInputStream(pstFile, x, encrypted) ==
    [null |-> FALSE, pc |-> x.pc, pstFile |-> pstFile, over |-> x, encrypted |-> encrypted]

\* null
Null == [null |-> TRUE]

\* new PSTTableBC(stream): the items of the table, or thrown on a stream that
\* holds no PC table
PSTTableBC(stream) ==
    IF stream.pc = <<>> THEN [err |-> TRUE, items |-> <<>>]
    ELSE [err |-> FALSE, items |-> stream.pc[1]]

\* pstFile.getPSTDescriptorItems(bid): the sub-node map parsed from block bid
\* of the file, thrown when the file has no such block
getPSTDescriptorItems(blocks, bid) ==
    IF bid \in DOMAIN blocks THEN [err |-> FALSE, map |-> MapTree(blocks[bid])]
    ELSE [err |-> TRUE, map |-> NullTree]

\* localDescriptorItems ? localDescriptorItems.get(id) : null, as a sequence
\* of at most one item
DescriptorItemNested(ldi, id) ==
    IF ~ldi.null /\ id \in DOMAIN ldi.map THEN <<ldi.map[id]>> ELSE <<>>

\* get embeddedPSTMessage on attachment a of a file with sub-node blocks
\* blocks: what is returned or thrown, and localDescriptorItems afterwards
embeddedPSTMessage(a, blocks) ==
    LET Out(status, value, ldi) == [status |-> status, value |-> value, ldi |-> ldi]
        Made(ldi, t) ==
            IF t.err THEN Out("error", Null, ldi)
            ELSE IF ~ldi.null /\ a.descriptorIndexNode
            THEN Out("ok", createAppropriatePSTMessageObject(t.items), ldi)
            ELSE Out("ok", Null, ldi)
        Table(ldi, stream) ==
            IF stream.null THEN Out("ok", Null, ldi) ELSE Made(ldi, PSTTableBC(stream))
        SubNodes(nested, sub) ==
            IF sub.err THEN Out("error", Null, a.localDescriptorItems)
            ELSE Table(sub.map, PSTNodeInputStream(a.pstFile, nested, Omitted))
        Nested(n) ==
            IF n = <<>> THEN Table(a.localDescriptorItems, Null)
            ELSE IF n[1].subNodeOffsetIndexIdentifier > 0
            THEN SubNodes(n[1], getPSTDescriptorItems(blocks,
                                    n[1].subNodeOffsetIndexIdentifier))
            ELSE Table(a.localDescriptorItems, PSTNodeInputStream(a.pstFile, n[1], Omitted))
        Item(item) ==
            IF item.entryValueType = 258
            THEN IF ~item.isExternalValueReference
                 THEN Table(a.localDescriptorItems,
                            PSTNodeInputStream(a.pstFile, item, Omitted))
                 ELSE Out("error", Null, a.localDescriptorItems)
            ELSE IF item.entryValueType = 13
            THEN Nested(DescriptorItemNested(a.localDescriptorItems,
                            convertLittleEndianBytesToLong(item.data, Arg(0), Arg(4))))
            ELSE Table(a.localDescriptorItems, Null)
    IN  IF getIntItem(a.pstTableItems, PR_ATTACH_METHOD) = ATTACHMENT_METHOD_EMBEDDED
        THEN IF PR_ATTACH_DATA_BIN \in DOMAIN a.pstTableItems
             THEN Item(a.pstTableItems[PR_ATTACH_DATA_BIN])
             ELSE Table(a.localDescriptorItems, Null)
        ELSE Out("ok", Null, a.localDescriptorItems)

\* the stream over an inline value made without the third argument
InlineStreamTwoArguments(pstFile, attachmentDataObject) ==
    PSTNodeInputStream(pstFile, attachmentDataObject, Omitted)

\* the stream fileInputStream makes over an inline value: `internal value
\* references are never encrypted`, the third argument is false
InlineStream(pstFile, attachmentDataObject) ==
    PSTNodeInputStream(pstFile, attachmentDataObject, Arg(FALSE))

\* get fileInputStream
fileInputStream(a) ==
    LET Nested(n) ==
            IF n # <<>>
            THEN [status |-> "ok", value |-> PSTNodeInputStream(a.pstFile, n[1], Omitted)]
            ELSE [status |-> "ok", value |-> Null]
        Data(attachmentDataObject) ==
            IF attachmentDataObject.isExternalValueReference
            THEN Nested(DescriptorItemNested(a.localDescriptorItems,
                            attachmentDataObject.entryValueReference))
            ELSE [status |-> "ok", value |-> InlineStream(a.pstFile, attachmentDataObject)]
    IN  IF PR_ATTACH_DATA_BIN \notin DOMAIN a.pstTableItems
        THEN [status |-> "ok", value |-> Null]
        ELSE Data(a.pstTableItems[PR_ATTACH_DATA_BIN])

\* get filesize
filesize(a) ==
    LET Nested(n) ==
            IF n = <<>> THEN [status |-> "error", value |-> 0]
            ELSE [status |-> "ok", value |-> n[1].dataSize]
        Data(attachmentDataObject) ==
            IF attachmentDataObject.isExternalValueReference
            THEN Nested(DescriptorItemNested(a.localDescriptorItems,
                            attachmentDataObject.entryValueReference))
            ELSE [status |-> "ok", value |-> Len(attachmentDataObject.data)]
    IN  IF PR_ATTACH_DATA_BIN \notin DOMAIN a.pstTableItems
        THEN [status |-> "ok", value |-> 0]
        ELSE Data(a.pstTableItems[PR_ATTACH_DATA_BIN])

\* the PC tables the streams of the file hold: a note, a contact, none
PcNote == <<(26 :> "IPM.Note") @@ (55 :> "subject")>>
PcContact == <<(26 :> "IPM.Contact") @@ (55 :> "subject")>>

\* the sub-node map an attachment is constructed with, and the sub-node
\* blocks of the file
TopDescriptorItems ==
    (33 :> PSTDescriptorItem(33, 0, 64, PcNote))
    @@ (65 :> PSTDescriptorItem(65, 300, 128, PcContact))
    @@ (97 :> PSTDescriptorItem(97, 400, 16, PcNote))
    @@ (129 :> PSTDescriptorItem(129, 0, 8, <<>>))

SubNodeBlocks ==
    300 :> ((33 :> PSTDescriptorItem(33, 0, 7, PcNote))
            @@ (161 :> PSTDescriptorItem(161, 0, 9, PcNote)))

\* the values of property 0x3701 tried: binary in the heap, binary in a
\* sub-node (present, absent), an object naming a sub-node (with and without
\* sub-nodes of its own, with a missing block, without a PC table, absent)
AttachDataItems ==
    {PSTTableItem(258, FALSE, 0, <<1, 2, 3>>, PcNote),
     PSTTableItem(258, TRUE, 33, <<>>, <<>>),
     PSTTableItem(258, TRUE, 99, <<>>, <<>>),
     PSTTableItem(13, FALSE, 0, LEBytes(33, 4) \o LEBytes(64, 4), <<>>),
     PSTTableItem(13, FALSE, 0, LEBytes(65, 4) \o LEBytes(128, 4), <<>>),
     PSTTableItem(13, FALSE, 0, LEBytes(97, 4) \o LEBytes(16, 4), <<>>),
     PSTTableItem(13, FALSE, 0, LEBytes(129, 4) \o LEBytes(8, 4), <<>>),
     PSTTableItem(13, FALSE, 0, LEBytes(99, 4) \o LEBytes(8, 4), <<>>)}

\* the tables an attachment is constructed over
AttachmentTables ==
    LET Method(n) == PR_ATTACH_METHOD :> PSTTableItem(3, FALSE, n, <<>>, <<>>)
    IN  {Method(n) @@ (PR_ATTACH_DATA_BIN :> i) :
            n \in {ATTACHMENT_METHOD_BY_VALUE, ATTACHMENT_METHOD_EMBEDDED},
            i \in AttachDataItems}
        \cup {Method(ATTACHMENT_METHOD_EMBEDDED)}

\* new PSTAttachment(pstFile, table, localDescriptorItems): prePopulate(null,
\* table, localDescriptorItems); pstFile is the file's encryption type;
\* previous and atConstruction are ghost fields, the outcome of the last
\* getter read and the sub-node map handed in
PSTAttachment(pstFile, items, ldi, node) ==
    [made |-> TRUE, pstFile |-> pstFile, pstTableItems |-> items,
     localDescriptorItems |-> ldi,
     descriptorIndexNode |-> node, atConstruction |-> ldi,
     previous |-> [op |-> "none"]]

InitAttachment ==
    /\ handles = <<>>
    /\ fdTable = <<>>
    /\ heap = <<>>
    /\ nodeMap = EmptyNodeMap
    /\ result = NoResult
    /\ steps = NoCalls
    /\ data = <<>>
    /\ data0 = <<>>
    /\ ndecode = 0
    /\ objects = <<>>
    /\ \E t \in AttachmentTables, ldi \in {NullTree, MapTree(TopDescriptorItems)},
          node \in BOOLEAN,
          enc \in {ENCRYPTION_TYPE_NONE, ENCRYPTION_TYPE_COMPRESSIBLE} :
           attachment = PSTAttachment([encryptionType |-> enc], t, ldi, node)

\* a getter read that gives r and leaves the sub-node map ldi
Got(op, r, ldi) ==
    /\ steps.calls < MaxCalls
    /\ result' = [op |-> op, h |-> 0, status |-> r.status, value |-> r.value]
    /\ attachment' = [attachment EXCEPT !.localDescriptorItems = ldi,
                                        !.previous = [op |-> result.op, r |-> result]]
    /\ steps' = [steps EXCEPT !.calls = @ + 1]
    /\ UNCHANGED <<handles, fdTable, heap, nodeMap, data, data0, ndecode, objects>>

EmbeddedPSTMessage ==
    LET Returns(r) == Got("embeddedPSTMessage", r, r.ldi)
    IN  Returns(embeddedPSTMessage(attachment, SubNodeBlocks))

FileInputStream == Got("fileInputStream", fileInputStream(attachment),
                       attachment.localDescriptorItems)

Filesize == Got("filesize", filesize(attachment), attachment.localDescriptorItems)

NextAttachment == EmbeddedPSTMessage \/ FileInputStream \/ Filesize

SpecAttachment == InitAttachment /\ [][NextAttachment]_vars

(***************************************************************************)
(* The properties.  Helpers first: the file an instance was constructed    *)
(* over, and what the header of a file says.                               *)
(***************************************************************************)
HandleFile(h) == IF h.pstFD > 0 THEN h.pstFilename[1] ELSE heap[h.pstBuffer].file

HeaderMagicBad(d) == <<ByteAt(d, 0), ByteAt(d, 1), ByteAt(d, 2), ByteAt(d, 3)>> # <<33, 66, 68, 78>>

HeaderVersionBad(d) == ByteAt(d, 10) \notin {14, 15, 23, 36}

HeaderEncryptionByte(d) ==
    IF ByteAt(d, 10) \in {14, 15} THEN ByteAt(d, 461) ELSE ByteAt(d, 513)

HeaderBad(d) == HeaderMagicBad(d) \/ HeaderVersionBad(d) \/ HeaderEncryptionByte(d) = 2

\* C1: the constructor throws whenever the first four bytes are not "!BDN",
\* byte 10 is none of 14, 15, 23, 36, or the encryption byte (461 for the
\* ANSI versions, 513 otherwise) is 2, for a path and for a buffer alike: no
\* instance is ever made over such a file.
C1_ConstructorRejectsBadHeader ==
    /\ \A i \in DOMAIN handles : ~HeaderBad(Disk[HandleFile(handles[i])])
    /\ (result.op = "open" /\ HeaderBad(Disk[result.file]))
           => /\ result.status \in {"badheader", "unsupported", "encrypted"}
              /\ result.h = 0

\* C1, its case: a buffer with encryption byte 2 has just been refused, after
\* a path to a file with a wrong magic was refused
C1_Witness ==
    /\ result.op = "open"
    /\ result.kind = "buffer"
    /\ HeaderEncryptionByte(Disk[result.file]) = 2
    /\ result.status = "encrypted"
    /\ \E n \in DOMAIN fdTable : HeaderMagicBad(Disk[fdTable[n].name])
    /\ handles = <<>>

\* the same bytes with version byte 14
Twin14(d) == [d EXCEPT !.bytes[11] = 14]

\* C2: after a successful open pstFileType is 14, 23 or 36, and a file whose
\* byte 10 is 15 is treated exactly as the same file with byte 10 = 14: same
\* outcome, type 14, encryption byte read at 461, the ANSI layout.
C2_AnsiTwoTreatedAsAnsi ==
    /\ \A i \in DOMAIN handles : handles[i].pstFileType \in {14, 23, 36}
    /\ (result.op = "open" /\ ByteAt(Disk[result.file], 10) = 15) =>
           LET d == Disk[result.file]
               t == Constructor([kind |-> "buffer", open |-> TRUE, d |-> Twin14(d)],
                                EmptyNodeMap)
           IN  /\ result.status = t.status
               /\ result.status = "ok" =>
                      /\ handles[result.h].pstFileType = 14
                      /\ t.pstFileType = 14
                      /\ handles[result.h].encryptionType = ByteAt(d, 461)
                      /\ handles[result.h].encryptionType = t.encryptionType
                      /\ handles[result.h].position = t.pos
                      /\ RootOffsetPos(handles[result.h].pstFileType, TRUE) = 188
                      /\ RootOffsetPos(handles[result.h].pstFileType, FALSE) = 196
                      /\ LeafEntrySize(handles[result.h].pstFileType, TRUE) = 16
                      /\ LeafEntrySize(handles[result.h].pstFileType, FALSE) = 12

\* C2, its case: a path to a file with byte 10 = 15 and encryption byte 1 at
\* offset 461 has just been opened
C2_Witness ==
    /\ result.op = "open"
    /\ result.kind = "path"
    /\ result.status = "ok"
    /\ ByteAt(Disk[result.file], 10) = 15
    /\ handles[result.h].pstFileType = 14
    /\ handles[result.h].encryptionType = 1

\* C3: after a successful open encryptionType is 0 (none) or 1
\* (compressible).
C3_EncryptionNoneOrCompressible ==
    \A i \in DOMAIN handles :
        handles[i].encryptionType \in {ENCRYPTION_TYPE_NONE, ENCRYPTION_TYPE_COMPRESSIBLE}

\* C4: the file descriptor is released on every exit path: an open
\* descriptor belongs to an instance that was constructed (and not closed).
C4_DescriptorReleasedOnEveryExit ==
    \A n \in DOMAIN fdTable : \E i \in DOMAIN handles : handles[i].pstFD = n

\* C5: the name-to-ID map of an open instance is the one built when it was
\* opened, whatever is constructed afterwards: a lookup answers from it.
C5_NameMapFixedAtOpen ==
    result.op = "getNameToIdMapItem" =>
        result.id = getNameToIdMapItem(handles[result.h].mapAtOpen, result.key, result.idx)

PageLevelAt(type) ==
    IF type = 14 THEN 496 + 3 ELSE IF type = 36 THEN 4056 + 5 ELSE 488 + 3

PageCountAt(type) == IF type = 14 THEN 496 ELSE IF type = 36 THEN 4056 ELSE 488

\* C7: findBtreeItem returns only from a leaf page (levelsToLeaf 0), only an
\* entry of that page whose key equals the index asked for, and exactly the
\* bytes of that entry (16 or 32 bytes of an NBT entry, 12 or 24 of a BBT
\* entry); every other outcome is an error.
C7_FoundOnlyInLeafWithEqualKey ==
    result.op = "findBtreeItem" =>
        LET h == handles[result.h]
            d == Disk[HandleFile(h)]
            size == IF h.pstFileType = 14 THEN (IF result.descTree THEN 16 ELSE 12)
                                          ELSE (IF result.descTree THEN 32 ELSE 24)
            keyWidth == IF result.descTree \/ h.pstFileType = 14 THEN 4 ELSE 8
        IN  IF result.status = "found"
            THEN /\ ByteAt(d, result.page + PageLevelAt(h.pstFileType)) = 0
                 /\ result.levels = 0
                 /\ result.x >= 0
                 /\ result.x < ByteAt(d, result.page + PageCountAt(h.pstFileType))
                 /\ Len(result.bytes) = size
                 /\ result.bytes =
                        [k \in 1..size |-> ByteAt(d, result.page + result.x * size + k - 1)]
                 /\ LEFold(result.bytes, 0, keyWidth - 1) = result.index
            ELSE /\ result.status \in {"notfound", "nonode", "ioerror"}
                 /\ result.bytes = <<>>

\* C7, its case: an NBT entry found on a leaf below the root page of a
\* Unicode file
C7_Witness ==
    /\ result.op = "findBtreeItem"
    /\ result.status = "found"
    /\ result.descTree
    /\ result.index = 8226
    /\ handles[result.h].pstFileType = 23
    /\ HandleFile(handles[result.h]).shape = "deep"
    /\ Len(result.bytes) = 32

\* C8: the NBT fallback map is built lazily and memoized: it is null until
\* the first getChildDescriptorTree call walks the NBT, no later call walks
\* again, and every call returns the map the instance holds.
C8_FallbackMapLazyAndMemoized ==
    /\ \A i \in DOMAIN handles :
           /\ handles[i].childrenDescriptorTree.null <=> handles[i].walks = 0
           /\ handles[i].walks <= 1
    /\ result.op = "getChildDescriptorTree" =>
           /\ handles[result.h].childrenDescriptorTree = result.tree
           /\ result.status = "ok" => ~result.tree.null

\* C8, its case: a call that returned the map built by an earlier call,
\* without walking
C8_Witness ==
    /\ result.op = "getChildDescriptorTree"
    /\ result.status = "ok"
    /\ ~result.walked
    /\ handles[result.h].walks = 1
    /\ DOMAIN result.tree.map # {}

\* C9: no operation modifies the input: a caller's buffer holds the bytes it
\* was handed over with (byte 10 = 15 included: the normalisation to 14 is
\* made on the constructor's own header copy), and a path is opened
\* read-only.
C9_InputNeverModified ==
    /\ \A b \in DOMAIN heap : BufferContent(heap[b]).bytes = Disk[heap[b].file].bytes
    /\ \A n \in DOMAIN fdTable : fdTable[n].flags = "r"

\* C9, its case: a read through an instance over a buffer whose byte 10 is
\* 15, opened as type 14
C9_Witness ==
    /\ result.op = "readCompletely"
    /\ result.status = "ok"
    /\ handles[result.h].pstFD < 0
    /\ handles[result.h].pstFileType = 14
    /\ ByteAt(BufferContent(heap[handles[result.h].pstBuffer]), 10) = 15

\* C10: read(position) and readCompletely(buffer, position) with an explicit
\* position p deliver the bytes at p and leave the cursor at p + bytesRead,
\* for every p >= 0, p = 0 included.
C10_ExplicitPositionHonoured ==
    (result.op \in {"read", "readCompletely"} /\ result.posArg # Omitted
        /\ result.status = "ok") =>
        LET h == handles[result.h]
            d == Disk[HandleFile(h)]
            p == ArgVal(result.posArg)
            n == Len(result.bytes)
        IN  /\ result.bytes = [k \in 1..n |-> ByteAt(d, p + k - 1)]
            /\ h.position = p + n

\* the source of the other kind over the same bytes
TwinSource(s) ==
    [kind |-> IF s.kind = "fd" THEN "buffer" ELSE "fd", open |-> TRUE, d |-> s.d]

\* C11: an instance over a path and an instance over a buffer holding the
\* same bytes behave the same: a read or readCompletely made at the same
\* cursor delivers the same bytes, leaves the same cursor and fails alike,
\* reads that extend past the end of the data included.
C11_PathAndBufferAgree ==
    (result.op \in {"read", "readCompletely"} /\ Source(handles[result.h]).open) =>
        LET Same(h, t) ==
                /\ result.bytes = t.buf
                /\ h.position = t.pos
                /\ (result.status = "ioerror") <=> t.err
        IN  Same(handles[result.h],
                 readCompletely(TwinSource(Source(handles[result.h])), result.before,
                                Zeros(Len(result.bytes)), result.posArg))

\* C12: createAppropriatePSTMessageObject is a total dispatch on property
\* 0x001A: IPM.Note gives a Message, IPM.Appointment an Appointment,
\* IPM.Contact a Contact, IPM.Task a Task, IPM.Activity an Activity; a class
\* that no case label names, an absent MessageClass included, gives a
\* generic Message that still exposes the table's subject; no call throws.
C12_DispatchIsTotal ==
    /\ result.op = "createAppropriatePSTMessageObject" =>
           /\ result.status = "ok"
           /\ objects # <<>>
           /\ objects[Len(objects)].table = result.table
    /\ \A i \in DOMAIN objects :
           LET Typed(o, c) ==
                   /\ c = <<"IPM.Note">> => o.type = "PSTMessage"
                   /\ c = <<"IPM.Appointment">> => o.type = "PSTAppointment"
                   /\ c = <<"IPM.Contact">> => o.type = "PSTContact"
                   /\ c = <<"IPM.Task">> => o.type = "PSTTask"
                   /\ c = <<"IPM.Activity">> => o.type = "PSTActivity"
                   /\ c \notin (NoteClasses \cup AppointmentClasses \cup ContactClasses
                                \cup TaskClasses \cup ActivityClasses
                                \cup OtherMessageClasses) =>
                          /\ o.type = "PSTMessage"
                          /\ o.diagnostic
                          /\ o.table[55] = "subject"
           IN  Typed(objects[i], MessageClassOf(objects[i].table))

\* C12, its case: a generic Message made for IPM.Zzz and one made for a
\* table without a MessageClass
C12_Witness ==
    /\ Len(objects) = 2
    /\ MessageClassOf(objects[1].table) = <<"IPM.Zzz">>
    /\ objects[1].type = "PSTMessage"
    /\ MessageClassOf(objects[2].table) = <<>>
    /\ objects[2].type = "PSTMessage"

\* C13: every message class with the prefix IPM.Schedule.Meeting. (Request,
\* Canceled, Resp.Pos, Resp.Neg, Resp.Tent, Notification.Forward) is
\* dispatched to the Appointment type.
C13_MeetingClassesGiveAppointment ==
    \A i \in DOMAIN objects :
        MessageClassOf(objects[i].table) \in
            {<<"IPM.Schedule.Meeting.Request">>, <<"IPM.Schedule.Meeting.Canceled">>,
             <<"IPM.Schedule.Meeting.Resp.Pos">>, <<"IPM.Schedule.Meeting.Resp.Neg">>,
             <<"IPM.Schedule.Meeting.Resp.Tent">>,
             <<"IPM.Schedule.Meeting.Notification.Forward">>}
        => objects[i].type = "PSTAppointment"

\* C14: IPM.TaskRequest and IPM.TaskRequest.Accept, .Decline and .Update are
\* dispatched to the Task type, like IPM.Task.
C14_TaskRequestsGiveTask ==
    \A i \in DOMAIN objects :
        MessageClassOf(objects[i].table) \in
            {<<"IPM.Task">>, <<"IPM.TaskRequest">>, <<"IPM.TaskRequest.Accept">>,
             <<"IPM.TaskRequest.Decline">>, <<"IPM.TaskRequest.Update">>}
        => objects[i].type = "PSTTask"

\* C15: errors on an attachment's external data reference are surfaced: when
\* property 0x3701 is an external reference whose local id is absent from
\* the sub-node map, filesize and fileInputStream both report an error and
\* neither returns an empty result (0 or null).
C15_ExternalDataErrorsSurfaced ==
    (/\ result.op \in {"filesize", "fileInputStream"}
     /\ PR_ATTACH_DATA_BIN \in DOMAIN attachment.pstTableItems
     /\ attachment.pstTableItems[PR_ATTACH_DATA_BIN].isExternalValueReference
     /\ DescriptorItemNested(attachment.localDescriptorItems,
            attachment.pstTableItems[PR_ATTACH_DATA_BIN].entryValueReference) = <<>>)
    => result.status = "error"

\* C16: an attachment is immutable after construction: a read of
\* embeddedPSTMessage leaves localDescriptorItems as the constructor got it,
\* two reads of embeddedPSTMessage in a row give the same result, and
\* filesize and fileInputStream give what they give on the attachment as
\* constructed.
C16_AttachmentImmutable ==
    attachment.made =>
        LET Outcome(r) == [status |-> r.status, value |-> r.value]
            AsConstructed ==
                [attachment EXCEPT !.localDescriptorItems = attachment.atConstruction]
        IN  /\ attachment.localDescriptorItems = attachment.atConstruction
            /\ (result.op = "embeddedPSTMessage"
                    /\ attachment.previous.op = "embeddedPSTMessage")
               => Outcome(result) = Outcome(attachment.previous.r)
            /\ result.op = "filesize" => Outcome(result) = filesize(AsConstructed)
            /\ result.op = "fileInputStream"
               => Outcome(result) = fileInputStream(AsConstructed)

\* the key of entry e of the branch page at offset page of d, for a file
\* offset of width w, and the number of entries of the page
BranchKey(d, type, page, e) ==
    LEFold([k \in 1..OffsetWidth(type) |-> ByteAt(d, page + e * BranchEntrySize(type) + k - 1)],
           0, OffsetWidth(type) - 1)

BranchCount(d, type, page) == ByteAt(d, page + PageCountAt(type))

\* C17: on a branch page findBtreeItem descends into the child of the last
\* entry whose key is <= the target (the last entry of the page when no key
\* exceeds the target), whenever the page has an entry with such a key.
C17_DescendsIntoLastKeyNotAbove ==
    result.op = "findBtreeItem" =>
        LET type == handles[result.h].pstFileType
            d == Disk[HandleFile(handles[result.h])]
            NotAbove(page) ==
                {e \in 0..(BranchCount(d, type, page) - 1) :
                    BranchKey(d, type, page, e) <= result.index}
        IN  \A i \in DOMAIN result.path :
                NotAbove(result.path[i].page) # {} =>
                    /\ result.path[i].from \in NotAbove(result.path[i].page)
                    /\ \A e \in NotAbove(result.path[i].page) : e <= result.path[i].from

\* C18: in the ANSI variant the branch comparison is by numeric value: on
\* every branch page an ANSI lookup descends into the child index the
\* Unicode comparison gives for the same keys and the same target (the entry
\* before the first key greater than the target, the last entry when none
\* is).
C18_AnsiDescendsLikeUnicode ==
    (result.op = "findBtreeItem" /\ handles[result.h].pstFileType = PST_TYPE_ANSI) =>
        LET d == Disk[HandleFile(handles[result.h])]
            Above(page) ==
                {e \in 0..(BranchCount(d, PST_TYPE_ANSI, page) - 1) :
                    KeyGreater(PST_TYPE_UNICODE, BranchKey(d, PST_TYPE_ANSI, page, e),
                               result.index)}
            Choice(page) ==
                IF Above(page) = {} THEN BranchCount(d, PST_TYPE_ANSI, page) - 1
                ELSE (CHOOSE e \in Above(page) : \A f \in Above(page) : e <= f) - 1
        IN  \A i \in DOMAIN result.path :
                result.path[i].from = Choice(result.path[i].page)

\* C19: every child-page offset a lookup follows is read from an entry with
\* index in 0..count-1 of the current branch page; with a target below the
\* page's first key no pointer is read from bytes before the page.
C19_ChildReadFromEntryOfPage ==
    result.op = "findBtreeItem" =>
        \A i \in DOMAIN result.path :
            /\ result.path[i].from >= 0
            /\ result.path[i].from <
                   BranchCount(Disk[HandleFile(handles[result.h])],
                               handles[result.h].pstFileType, result.path[i].page)

\* are the two marker bytes of the page at offset page both marker?
PageMarked(d, type, page, marker) ==
    /\ ByteAt(d, page + fileTypeAdjustment(type)) = marker
    /\ ByteAt(d, page + fileTypeAdjustment(type) + 1) = marker

\* the pages of the NBT of d a walk from the root visits: the root, and the
\* children of a root that is a branch page with the NBT marker
NbtPagesVisited(d, type) ==
    LET root == LEFold([k \in 1..OffsetWidth(type) |->
                           ByteAt(d, RootOffsetPos(type, TRUE) + k - 1)],
                       0, OffsetWidth(type) - 1)
        Child(e) ==
            LEFold([k \in 1..OffsetWidth(type) |->
                       ByteAt(d, root + e * BranchEntrySize(type) + BranchChildAt(type)
                                 + k - 1)],
                   0, OffsetWidth(type) - 1)
    IN  IF PageMarked(d, type, root, 129) /\ ByteAt(d, root + PageLevelAt(type)) > 0
        THEN {root} \cup {Child(e) : e \in 0..(BranchCount(d, type, root) - 1)}
        ELSE {root}

RECURSIVE Flatten(_)
Flatten(ls) == IF ls = <<>> THEN <<>> ELSE ls[1] \o Flatten(Tail(ls))

NodeOfEntry(e) ==
    [descriptorIdentifier |-> e.nid, dataOffsetIndexIdentifier |-> e.dataBid,
     localDescriptorsOffsetIndexIdentifier |-> e.subBid,
     parentDescriptorIndexIdentifier |-> e.parent]

RECURSIVE ChildrenAmong(_, _)
ChildrenAmong(es, p) ==
    IF es = <<>> THEN <<>>
    ELSE (IF es[1].parent = p /\ es[1].nid # p THEN <<NodeOfEntry(es[1])>> ELSE <<>>)
         \o ChildrenAmong(Tail(es), p)

NbtEntriesInOrder(f) == Flatten(NbtLeaves(f.shape))

ParentsOf(f) ==
    {NbtEntriesInOrder(f)[k].parent : k \in DOMAIN NbtEntriesInOrder(f)}

C22_DuplicateEntriesSkipped ==
    (result.op = "getChildDescriptorTree" /\ result.walked /\ result.status = "ok") =>
        \A p \in DOMAIN result.tree.map :
            \A j, k \in DOMAIN result.tree.map[p] :
                result.tree.map[p][j].descriptorIdentifier
                    = result.tree.map[p][k].descriptorIdentifier => j = k

(***************************************************************************)
(* processNameToIDMap on its streams: the GUID stream (property 2) and the *)
(* entry stream (property 3) are drawn from samples, the string stream     *)
(* (property 4) holds one name.                                            *)
(***************************************************************************)
\* GUIDs by reserved index; -1 is a GUID that guidMap does not hold
GuidSamples == {0, 1, 8, 14, -1}

GuidSampleBytes(g) ==
    IF g = -1 THEN [i \in 1..16 |-> i] ELSE GuidFileBytes(guidMap[g + 1])

\* entries {id, guidRef, propIndex}: numeric names under guidIndexes[0],
\* PS_MAPI, PS_PUBLIC_STRINGS and guidIndexes[1], a string name, and a
\* numeric name whose guidRef >> 1 is 0
EntrySamples ==
    {[key |-> 34049, guidRef |-> 6, propIndex |-> 1],
     [key |-> 16, guidRef |-> 2, propIndex |-> 4],
     [key |-> 17, guidRef |-> 4, propIndex |-> 2],
     [key |-> 34050, guidRef |-> 8, propIndex |-> 65535],
     [key |-> 0, guidRef |-> 5, propIndex |-> 6],
     [key |-> 9, guidRef |-> 0, propIndex |-> 3]}

RECURSIVE SeqsUpTo(_, _)
SeqsUpTo(S, n) ==
    IF n = 0 THEN {<<>>}
    ELSE SeqsUpTo(S, n - 1) \cup {Append(q, x) : q \in SeqsUpTo(S, n - 1), x \in S}

GuidStreams == SeqsUpTo(GuidSamples, MaxGuids)
EntryStreams == SeqsUpTo(EntrySamples, MaxEntries)

RECURSIVE GuidStreamBytes(_)
GuidStreamBytes(gs) ==
    IF gs = <<>> THEN <<>> ELSE GuidSampleBytes(gs[1]) \o GuidStreamBytes(Tail(gs))

RECURSIVE EntryStreamBytes(_)
EntryStreamBytes(es) ==
    IF es = <<>> THEN <<>>
    ELSE NameEntryBytes(es[1].key, es[1].guidRef, es[1].propIndex)
         \o EntryStreamBytes(Tail(es))

NameStringBytes == LEBytes(4, 4) \o <<75, 0, 119, 0>>

\* the GUID loop and the entry loop of processNameToIDMap over the streams
\* gs and es, on the static map as it is
ProcessNameStreams(gs, es) ==
    LET Filled(gi, p) ==
            /\ result.op = "none"
            /\ nodeMap' = p.nodeMap
            /\ result' = [op |-> "processNameToIDMap", h |-> 0, status |-> p.status,
                          guids |-> gs, entries |-> es, guidIndexes |-> gi]
            /\ steps' = [steps EXCEPT !.calls = @ + 1]
            /\ UNCHANGED <<handles, fdTable, heap, data, data0, ndecode, objects, attachment>>
        Guids(gi) ==
            Filled(gi, ProcessEntries(EntryStreamBytes(es), NameStringBytes, gi, 0, nodeMap))
    IN  Guids(GuidIndexes(GuidStreamBytes(gs)))

NextNames == \E gs \in GuidStreams, es \in EntryStreams : ProcessNameStreams(gs, es)

SpecNames == Init /\ [][NextNames]_vars

\* C23: every GUID of the GUID stream is mapped to its index: a GUID that
\* guidMap holds to its reserved index in 0..14, index 0 included, any other
\* GUID to -1.
C23_KnownGuidsKeepReservedIndex ==
    result.op = "processNameToIDMap" =>
        /\ Len(result.guidIndexes) = Len(result.guids)
        /\ \A i \in DOMAIN result.guids : result.guidIndexes[i] = result.guids[i]

\* is entry e of an entry stream in the map nm, gi being the GUID indexes?
EntryRegistered(nm, gi, e) ==
    IF e.guidRef % 2 = 0
    THEN /\ GuidIndexAt(gi, e.guidRef \div 2) # Omitted
         /\ NodeMapGetNumeric(nm, e.key, ArgVal(GuidIndexAt(gi, e.guidRef \div 2)))
                = 32768 + e.propIndex
    ELSE NodeMapGetString(nm, Utf16Name(NameStringBytes, e.key + 4, 4)) = 32768 + e.propIndex

\* C24: every complete 8-byte entry of the entry stream is processed: when
\* processNameToIDMap returns over a stream of n entries (8 * n bytes), each
\* of the n entries, the last one included, is in the map.
C24_EveryEntryRegistered ==
    (result.op = "processNameToIDMap" /\ result.status = "ok") =>
        \A j \in DOMAIN result.entries :
            EntryRegistered(nodeMap, result.guidIndexes, result.entries[j])

\* C25: for every entry with a numeric name, the GUID index handed to the
\* map is a defined integer in -1..14 (PS_MAPI for guidRef >> 1 = 1,
\* PS_PUBLIC_STRINGS for 2, guidIndexes[(guidRef >> 1) - 3] otherwise), so
\* the registration never fails for want of an index, and every numeric name
\* is registered under an index in -1..14 with a property id >= 0x8000.
C25_NumericNamesUnderDefinedIndex ==
    result.op = "processNameToIDMap" =>
        /\ result.status # "badparam"
        /\ \A k \in DOMAIN nodeMap.numToId :
               /\ k[2] \in -1..14
               /\ nodeMap.numToId[k] >= 32768

\* C26: fileInputStream returns null when property 0x3701 is absent; for an
\* inline value it returns a stream over the value's bytes made with
\* decoding disabled (third argument false), whatever the encryption type
\* of the file; for an external reference it returns a stream over the
\* sub-node descriptor item that localDescriptorItems holds under
\* entryValueReference.
C26_FileInputStreamByKindOfValue ==
    LET items == attachment.pstTableItems
        item == items[PR_ATTACH_DATA_BIN]
        ldi == attachment.localDescriptorItems
    IN  result.op = "fileInputStream" =>
            /\ result.status = "ok"
            /\ PR_ATTACH_DATA_BIN \notin DOMAIN items => result.value = Null
            /\ (PR_ATTACH_DATA_BIN \in DOMAIN items /\ ~item.isExternalValueReference) =>
                   /\ ~result.value.null
                   /\ result.value.over = item
                   /\ result.value.encrypted = Arg(FALSE)
                   /\ result.value.pstFile = attachment.pstFile
            /\ (PR_ATTACH_DATA_BIN \in DOMAIN items /\ item.isExternalValueReference
                    /\ ~ldi.null /\ item.entryValueReference \in DOMAIN ldi.map) =>
                   /\ ~result.value.null
                   /\ result.value.over = ldi.map[item.entryValueReference]

\* C26, its case: on a file with compressible encryption, a read of
\* fileInputStream that returned the stream over the inline bytes 1 2 3
C26_Witness ==
    /\ result.op = "fileInputStream"
    /\ attachment.pstFile.encryptionType = ENCRYPTION_TYPE_COMPRESSIBLE
    /\ PR_ATTACH_DATA_BIN \in DOMAIN attachment.pstTableItems
    /\ ~attachment.pstTableItems[PR_ATTACH_DATA_BIN].isExternalValueReference
    /\ ~result.value.null
    /\ result.value.encrypted = Arg(FALSE)
    /\ result.value.over.data = <<1, 2, 3>>

\* C27: the B-tree lookups do not disturb the caller's cursor: a call of
\* getDescriptorIndexNode, getOffsetIndexNode, getLeafSize or
\* getChildDescriptorTree, returning or throwing, leaves the handle's read
\* position where it was.
C27_LookupsKeepCursor ==
    [][result'.op \in {"findBtreeItem", "getLeafSize", "getChildDescriptorTree"} =>
           handles'[result'.h].position = handles[result'.h].position]_vars

\* C28: findBtreeItem and processDescriptorBTree terminate, by returning or
\* by throwing, for every file content, a page graph with a branch entry
\* that points back to its own page included: no lookup and no NBT walk is a
\* call that does not come back.
C28_WalksTerminate ==
    result.op \in {"findBtreeItem", "getLeafSize", "getChildDescriptorTree"} =>
        result.status # "diverges"

\* C29: a failed fallback build is never mistaken for a complete one: a
\* getChildDescriptorTree() call returns a map only if an NBT walk of this
\* handle has run to its end; after a walk that threw, a later call walks
\* again or throws again.
C29_FailedBuildNotReturned ==
    (result.op = "getChildDescriptorTree" /\ result.status = "ok") =>
        handles[result.h].complete

\* decode applied n times
RECURSIVE DecodeTimes(_, _)
DecodeTimes(buf, n) == IF n = 0 THEN buf ELSE DecodeTimes(decode(buf), n - 1)

\* C30: compEnc is a permutation of 0..255 (256 entries, every byte value
\* exactly once), so decode is a length-preserving byte-wise substitution
\* that maps distinct inputs to distinct outputs: the decoded buffer has the
\* length of the original, each byte of it depends on the byte at the same
\* place only, and no other buffer of the inputs decodes to it.
C30_CompEncIsPermutation ==
    /\ Len(compEnc) = 256
    /\ \A v \in 0..255 : Cardinality({i \in 1..256 : compEnc[i] = v}) = 1
    /\ Len(data) = Len(data0)
    /\ \A x \in DOMAIN data : data[x] = DecodeTimes(<<data0[x]>>, ndecode)[1]
    /\ \A b \in Buffers(1, 0..255) \cup Buffers(MaxDecodeLen, DecodeSamples) :
           b # data0 => DecodeTimes(b, ndecode) # data

\* C30, its case: a buffer of two different bytes, decoded once
C30_Witness ==
    /\ ndecode = 1
    /\ data0 = <<71, 146>>
    /\ data = <<compEnc[72], compEnc[147]>>
    /\ data[1] # data[2]

====
